------------------------------ MODULE Spec2Model ------------------------------
(***************************************************************************)
(* Reconciliation and classification engine of osinfo-eval.                *)
(*                                                                         *)
(* Two variants of the same pipeline are modelled from the source:         *)
(*   - the interactive variant, src/app.py (main, validar_nota_fiscal),    *)
(*   - the batch variant, src/extrair_notas_fiscais.py                     *)
(*     (processar_todos_pdfs, validar_nota_fiscal).                        *)
(*                                                                         *)
(* Python values are modelled as tagged records, Python strings as         *)
(* sequences of one-character strings, Python dicts as functions from key  *)
(* names to values (a missing key is a key outside the DOMAIN).  A Python  *)
(* float is kept as the characters of its repr, which name it uniquely;    *)
(* arithmetic and comparisons are made on the IEEE-754 binary64 number     *)
(* that float() reads from text, with the mantissa kept as a sequence of   *)
(* 53 bits, so that float(a) - float(b) rounds as it does in the program.  *)
(***************************************************************************)
EXTENDS Integers, Sequences, FiniteSets, TLC

VARIABLES
    modo,        \* "validar" | "pares" | "app" | "batch": which entry point runs
    pc,          \* position of the running entry point
    nota,        \* the record handed to validar_nota_fiscal (validator harness)
    nota2,       \* a second record, validated next to the first (pair harness)
    validacoes,  \* what validar_nota_fiscal of app.py and of the batch script returned for nota
    validacoes2, \* the same for nota2
    bigquery_enabled,   \* BIGQUERY_ENABLED and a connected bigquery_client
    arquivos_pdf,       \* the documents to process: what the extraction service
                        \* and the ledger query give for each
    idx,                \* the document being processed (1-based); interactive
                        \* variant: the uploaded document
    notas_fiscais,      \* the extraction output of that document (dicts updated in place)
    registros_bigquery, \* the ledger rows of that document
    nota_idx,           \* the invoice of notas_fiscais to process next
    resultados,         \* the result rows appended so far; interactive variant:
                        \* by the analysis last started
    sessao,             \* interactive variant: st.session_state
    analises,           \* history, interactive variant: for each click on
                        \* "Analisar PDF", the document analysed and the calls
                        \* of consultar_bigquery_por_arquivo made in that run
    origem,             \* history: for each row of resultados, the document and
                        \* the invoice it was appended for (nota 0: an extra row)
    outras_despesas,    \* interactive variant: the ledger rows listed under
                        \* "Outras despesas encontradas no OSINFO"
    consultas           \* history: for each document, the calls of
                        \* consultar_bigquery_por_arquivo made for it

-----------------------------------------------------------------------------
(* Characters outside ASCII that the program's strings use.                *)

a_acute == "a_acute"
A_ACUTE == "A_ACUTE"
a_tilde == "a_tilde"
A_TILDE == "A_TILDE"
i_acute == "i_acute"
I_ACUTE == "I_ACUTE"

-----------------------------------------------------------------------------
(* Python values.  t is the Python type; s the characters of a str, or of  *)
(* the repr of a float ("100.0", "1e+16", "-0.0", "inf", "nan"); n the     *)
(* number of an int.                                                       *)

StrV(s)   == [t |-> "str",   s |-> s,    n |-> 0]
IntV(n)   == [t |-> "int",   s |-> <<>>, n |-> n]
FloatR(r) == [t |-> "float", s |-> r,    n |-> 0]
NoneV     == [t |-> "none",  s |-> <<>>, n |-> 0]
\* a list: s holds its elements
ListV(l)  == [t |-> "list",  s |-> l,    n |-> 0]

\* bool(v): the truth value Python gives a value in `if v` and `v if v else d`;
\* of the floats, 0.0 and -0.0 are false, and nan is true
Truthy(v) ==
    CASE v.t = "str"   -> v.s # <<>>
      [] v.t = "int"   -> v.n # 0
      [] v.t = "float" -> v.s \notin {<<"0", ".", "0">>, <<"-", "0", ".", "0">>}
      [] v.t = "list"  -> v.s # <<>>
      [] OTHER         -> FALSE

\* dict.get(k, default)
Get(d, k, default) == IF k \in DOMAIN d THEN d[k] ELSE default

\* F of the value of v, with v evaluated once
Com(v, F(_)) == CHOOSE r \in {F(x) : x \in {v}} : TRUE

\* dict.update(u): the keys of u overwrite those of d
Update(d, u) ==
    [k \in (DOMAIN d) \cup (DOMAIN u) |-> IF k \in DOMAIN u THEN u[k] ELSE d[k]]

-----------------------------------------------------------------------------
(* Python str operations, on sequences of characters.                      *)

\* the whitespace characters outside ASCII, by code point
UnicodeSpaces ==
    {"U+0085", "U+00A0", "U+1680", "U+2000", "U+2001", "U+2002", "U+2003", "U+2004",
     "U+2005", "U+2006", "U+2007", "U+2008", "U+2009", "U+200A", "U+2028", "U+2029",
     "U+202F", "U+205F", "U+3000"}

\* the characters float() drops around a number: space, tab, line feed,
\* carriage return, form feed, vertical tab, and the spaces outside ASCII
FloatWhitespace == {" ", "\t", "\n", "\r", "\f", ""} \cup UnicodeSpaces

\* the characters str.strip() drops (str.isspace): those and the four
\* separators U+001C to U+001F
Whitespace == FloatWhitespace \cup {"", "", "", ""}

UpperChars ==
    <<"A", "B", "C", "D", "E", "F", "G", "H", "I", "J", "K", "L", "M",
      "N", "O", "P", "Q", "R", "S", "T", "U", "V", "W", "X", "Y", "Z",
      A_ACUTE, A_TILDE, I_ACUTE>>

LowerChars ==
    <<"a", "b", "c", "d", "e", "f", "g", "h", "i", "j", "k", "l", "m",
      "n", "o", "p", "q", "r", "s", "t", "u", "v", "w", "x", "y", "z",
      a_acute, a_tilde, i_acute>>

LowerChar(c) ==
    IF \E i \in 1..Len(UpperChars) : UpperChars[i] = c
    THEN LowerChars[CHOOSE i \in 1..Len(UpperChars) : UpperChars[i] = c]
    ELSE c

\* str.lower()
Lower(s) == [i \in 1..Len(s) |-> LowerChar(s[i])]

\* s without the characters of set at its start
RECURSIVE LStripOf(_, _)
LStripOf(s, set) == IF s # <<>> /\ s[1] \in set THEN LStripOf(Tail(s), set) ELSE s

\* s without the characters of set at its end
RECURSIVE RStripOf(_, _)
RStripOf(s, set) ==
    IF s # <<>> /\ s[Len(s)] \in set THEN RStripOf(SubSeq(s, 1, Len(s) - 1), set)
    ELSE s

\* str.lstrip() of whitespace
LStrip(s) == LStripOf(s, Whitespace)

\* str.rstrip() of whitespace
RStrip(s) == RStripOf(s, Whitespace)

\* str.strip()
Strip(s) == RStrip(LStrip(s))

\* str.lstrip('0')
LStripZeros(s) == LStripOf(s, {"0"})

\* sub in s
Contains(sub, s) ==
    \E i \in 0..(Len(s) - Len(sub)) : SubSeq(s, i + 1, i + Len(sub)) = sub

DigitChars == <<"0", "1", "2", "3", "4", "5", "6", "7", "8", "9">>

IsDigit(c) == \E i \in 1..10 : DigitChars[i] = c

DigitValue(c) == (CHOOSE i \in 1..10 : DigitChars[i] = c) - 1

AllDigits(s) == \A i \in 1..Len(s) : IsDigit(s[i])

RECURSIVE DigitsValue(_)
DigitsValue(s) ==
    IF s = <<>> THEN 0
    ELSE 10 * DigitsValue(SubSeq(s, 1, Len(s) - 1)) + DigitValue(s[Len(s)])

\* the decimal digits of a natural number
RECURSIVE IntDigits(_)
IntDigits(n) ==
    IF n < 10 THEN <<DigitChars[n + 1]>>
    ELSE Append(IntDigits(n \div 10), DigitChars[(n % 10) + 1])

RECURSIVE StripTrailingZeros(_)
StripTrailingZeros(s) ==
    IF Len(s) > 1 /\ s[Len(s)] = "0"
    THEN StripTrailingZeros(SubSeq(s, 1, Len(s) - 1))
    ELSE s

\* the amounts of the input domains are written in thousandths
DecimalScale == 1000

-----------------------------------------------------------------------------
(* Natural numbers of any size, for exact decimal <-> binary conversion: a  *)
(* sequence of limbs in base 2^15, least significant first, without a zero  *)
(* most significant limb; zero is <<>>.  The operations are functions:      *)
(* their arguments are evaluated once.  They are the arithmetic inside     *)
(* Python's float(), str() and format(), which the repository calls and    *)
(* does not define.                                                        *)

LimbBits == 15

LimbBase == 32768

Bigs == Seq(0..(LimbBase - 1))

BitSeqs == Seq({0, 1})

DigitSeqs == Seq(0..9)

Zeros(n) == [i \in 1..n |-> 0]

\* 2^k
Pow2[k \in Nat] == IF k = 0 THEN 1 ELSE 2 * Pow2[k - 1]

\* the binary digits of a natural number, most significant first
RECURSIVE IntBits(_)
IntBits(i) == IF i = 0 THEN <<>> ELSE Append(IntBits(i \div 2), i % 2)

\* limb i of x; zero past its end
Limb(x, i) == IF i >= 1 /\ i <= Len(x) THEN x[i] ELSE 0

\* x without zero most significant limbs
BigTrim[x \in Bigs] ==
    LET nz == {i \in 1..Len(x) : x[i] # 0}
    IN  SubSeq(x, 1, IF nz = {} THEN 0 ELSE CHOOSE i \in nz : \A j \in nz : j <= i)

\* x + y: limb i gets a carry iff a pair of lower limbs overflows and every
\* pair between it and i sums to LimbBase - 1
BigAdd[x \in Bigs, y \in Bigs] ==
    LET n        == IF Len(x) > Len(y) THEN Len(x) ELSE Len(y)
        s(i)     == Limb(x, i) + Limb(y, i)
        carry(i) == \E j \in 1..(i - 1) :
                       s(j) >= LimbBase /\ \A k \in (j + 1)..(i - 1) : s(k) = LimbBase - 1
    IN  BigTrim[[i \in 1..(n + 1) |-> (s(i) + (IF carry(i) THEN 1 ELSE 0)) % LimbBase]]

\* x - y, for x >= y: limb i lends iff a pair of lower limbs is short and
\* every pair between it and i is equal
BigSub[x \in Bigs, y \in Bigs] ==
    LET d(i)      == x[i] - Limb(y, i)
        borrow(i) == \E j \in 1..(i - 1) :
                        d(j) < 0 /\ \A k \in (j + 1)..(i - 1) : d(k) = 0
    IN  BigTrim[[i \in 1..Len(x) |->
                    (d(i) - (IF borrow(i) THEN 1 ELSE 0) + LimbBase) % LimbBase]]

\* x * m + c: the low halves of the limb products, plus their high halves
\* one limb up with c below them
BigMulAdd[x \in Bigs, m \in 0..LimbBase, c \in 0..(LimbBase - 1)] ==
    BigAdd[BigTrim[[i \in 1..Len(x) |-> (x[i] * m) % LimbBase]],
           BigTrim[[i \in 1..(Len(x) + 1) |->
                      IF i = 1 THEN c ELSE (x[i - 1] * m) \div LimbBase]]]

\* the number written with at most four decimal digits
SmallFromDigits(ds) ==
    LET n == Len(ds)
        d(i) == IF i >= 1 THEN ds[i] ELSE 0
    IN  1000 * d(n - 3) + 100 * d(n - 2) + 10 * d(n - 1) + d(n)

\* the four decimal digits of a number below 10000
FourDigits(q) == <<q \div 1000, (q \div 100) % 10, (q \div 10) % 10, q % 10>>

\* the number written with the decimal digits ds, four digits at a time
BigFromDigits[ds \in DigitSeqs] ==
    IF Len(ds) <= 4 THEN BigTrim[<<SmallFromDigits(ds)>>]
    ELSE BigMulAdd[BigFromDigits[SubSeq(ds, 1, Len(ds) - 4)], 10000,
                   SmallFromDigits(SubSeq(ds, Len(ds) - 3, Len(ds)))]

\* binary digit p of b, counted from the least significant one, which is 0
BitAt(b, p) == IF p < Len(b) THEN b[Len(b) - p] ELSE 0

\* the number written with the binary digits p + k - 1 down to p of b
LimbOfBits[b \in BitSeqs, p \in Nat, k \in Nat] ==
    IF k = 0 THEN 0 ELSE 2 * LimbOfBits[b, p + 1, k - 1] + BitAt(b, p)

\* the number written with the binary digits b
BigFromBits[b \in BitSeqs] ==
    BigTrim[[i \in 1..((Len(b) + LimbBits - 1) \div LimbBits) |->
                LimbOfBits[b, LimbBits * (i - 1), LimbBits]]]

\* x * 10^k, four powers at a time
BigMulPow10[x \in Bigs, k \in Nat] ==
    IF k = 0 THEN x
    ELSE IF k >= 4 THEN BigMulPow10[BigMulAdd[x, 10000, 0], k - 4]
    ELSE BigMulPow10[BigMulAdd[x, 10, 0], k - 1]

\* x * 2^t
BigShl[x \in Bigs, t \in Nat] ==
    IF x = <<>> THEN <<>>
    ELSE Zeros(t \div LimbBits) \o BigMulAdd[x, Pow2[t % LimbBits], 0]

\* the number of binary digits of x
BigBitLen[x \in Bigs] ==
    IF x = <<>> THEN 0
    ELSE LimbBits * (Len(x) - 1) + Len(IntBits(x[Len(x)]))

\* x < y
BigLess[x \in Bigs, y \in Bigs] ==
    IF Len(x) # Len(y) THEN Len(x) < Len(y)
    ELSE \E i \in 1..Len(x) : x[i] < y[i] /\ \A j \in (i + 1)..Len(x) : x[j] = y[j]

\* n more binary digits of the fraction r / d (r < d) after the digits acc,
\* and whether nonzero digits follow them
QuotBits[r \in Bigs, d \in Bigs, n \in Nat, acc \in BitSeqs] ==
    IF n = 0 THEN [bits |-> acc, sticky |-> r # <<>>]
    ELSE IF BigLess[BigMulAdd[r, 2, 0], d]
    THEN QuotBits[BigMulAdd[r, 2, 0], d, n - 1, Append(acc, 0)]
    ELSE QuotBits[BigSub[BigMulAdd[r, 2, 0], d], d, n - 1, Append(acc, 1)]

\* QuotBits for numbers below 2^30, on the numbers themselves
QuotBitsSmall[r \in Nat, d \in Nat, n \in Nat, acc \in BitSeqs] ==
    IF n = 0 THEN [bits |-> acc, sticky |-> r # 0]
    ELSE IF 2 * r < d THEN QuotBitsSmall[2 * r, d, n - 1, Append(acc, 0)]
    ELSE QuotBitsSmall[2 * r - d, d, n - 1, Append(acc, 1)]

\* a number of at most two limbs
BigToNat(x) == Limb(x, 1) + LimbBase * Limb(x, 2)

\* floor(r / d), known to be at least lo and less than hi, and the
\* remainder
QuotSmall[r \in Bigs, d \in Bigs, lo \in Nat, hi \in Nat] ==
    IF hi - lo <= 1 THEN [q |-> lo, resto |-> BigSub[r, BigMulAdd[d, lo, 0]]]
    ELSE IF BigLess[r, BigMulAdd[d, (lo + hi) \div 2, 0]]
    THEN QuotSmall[r, d, lo, (lo + hi) \div 2]
    ELSE QuotSmall[r, d, (lo + hi) \div 2, hi]

\* 4 n more decimal digits of the fraction r / d (r < d) after the digits
\* acc, and whether nonzero digits follow them
QuotDigits[r \in Bigs, d \in Bigs, n \in Nat, acc \in DigitSeqs] ==
    IF n = 0 THEN [digits |-> acc, sticky |-> r # <<>>]
    ELSE Com(QuotSmall[BigMulAdd[r, 10000, 0], d, 0, 10000],
             LAMBDA qr : QuotDigits[qr.resto, d, n - 1, acc \o FourDigits(qr.q)])

-----------------------------------------------------------------------------
(* Python floats: IEEE-754 binary64, round-to-nearest-even.  A magnitude   *)
(* is [bits, e]: bits is the 53-bit mantissa, most significant bit first   *)
(* and equal to 1, and e the exponent of that bit, so the value lies in    *)
(* [2^e, 2^(e+1)); a subnormal number ends in zeros; zero is MagZero.  A   *)
(* float is a kind k ("fin", "inf", "nan"), a sign and a magnitude.        *)

MantissaBits == 53

MinExponent == -1022

MaxExponent == 1023

Mags == [bits : BitSeqs, e : Int]

MagZero == [bits |-> <<>>, e |-> 0]

Floats == [k : {"fin", "inf", "nan"}, neg : BOOLEAN, bits : BitSeqs, e : Int]

FloatZero == [k |-> "fin", neg |-> FALSE, bits |-> <<>>, e |-> 0]

FloatNaN == [k |-> "nan", neg |-> FALSE, bits |-> <<>>, e |-> 0]

FloatInf(neg) == [k |-> "inf", neg |-> neg, bits |-> <<>>, e |-> 0]

\* the magnitude of a finite float
Mag(f) == [bits |-> f.bits, e |-> f.e]

\* the float of sign neg and magnitude m; a magnitude of 2^1024 or more is
\* past the largest float and gives infinity
MagToFloat[neg \in BOOLEAN, m \in Mags] ==
    IF m.bits # <<>> /\ m.e > MaxExponent THEN FloatInf(neg)
    ELSE [k |-> "fin", neg |-> neg, bits |-> m.bits, e |-> m.e]

\* the zero digits b starts with
LeadingZeros[b \in BitSeqs] ==
    IF \E i \in 1..Len(b) : b[i] = 1
    THEN (CHOOSE i \in 1..Len(b) : b[i] = 1 /\ \A j \in 1..(i - 1) : b[j] = 0) - 1
    ELSE Len(b)

\* b + 1 on binary digits, for b not all ones
Increment[b \in BitSeqs] ==
    LET z == CHOOSE i \in 1..Len(b) : b[i] = 0 /\ \A j \in (i + 1)..Len(b) : b[j] = 1
    IN  [i \in 1..Len(b) |-> IF i < z THEN b[i] ELSE IF i = z THEN 1 ELSE 0]

\* The binary digits b (b[1] = 1, of exponent e), followed by a nonzero tail
\* iff sticky, rounded to a magnitude: to nearest, ties to the even mantissa.
\* Below 2^-1022 the mantissa keeps the digits down to 2^-1074 only.
RoundToDouble[b \in BitSeqs, e \in Int, sticky \in BOOLEAN] ==
    LET p  == IF e < MinExponent THEN MantissaBits - (MinExponent - e)
              ELSE MantissaBits
    IN  IF p < 0 THEN MagZero
        ELSE IF Len(b) <= p
        THEN [bits |-> b \o Zeros(MantissaBits - Len(b)), e |-> e]
        ELSE LET st == sticky \/ \E i \in (p + 2)..Len(b) : b[i] = 1
                 up == b[p + 1] = 1 /\ (st \/ (p > 0 /\ b[p] = 1))
             IN  IF ~up
                 THEN IF p = 0 THEN MagZero
                      ELSE [bits |-> SubSeq(b, 1, p) \o Zeros(MantissaBits - p), e |-> e]
                 ELSE IF \A i \in 1..p : b[i] = 1
                 THEN [bits |-> <<1>> \o Zeros(MantissaBits - 1), e |-> e + 1]
                 ELSE [bits |-> Increment[SubSeq(b, 1, p)] \o Zeros(MantissaBits - p),
                       e |-> e]

\* a quotient in binary: its bits, and whether a remainder was left
BitQuotients == [bits : BitSeqs, sticky : BOOLEAN]

\* the binary digits q.bits of exponent t, followed by a nonzero tail iff
\* q.sticky, rounded to a magnitude
RoundQuot[q \in BitQuotients, t \in Int] ==
    RoundToDouble[q.bits, t, q.sticky]

\* a / b rounded to a magnitude, for b <= a < 2 b; t is the binary exponent
RatioNormal[a \in Bigs, b \in Bigs, t \in Int] ==
    IF Len(a) <= 2
    THEN RoundQuot[QuotBitsSmall[BigToNat(a) - BigToNat(b), BigToNat(b),
                                 MantissaBits + 1, <<1>>], t]
    ELSE RoundQuot[QuotBits[BigSub[a, b], b, MantissaBits + 1, <<1>>], t]

\* a / b * 2^t rounded to a magnitude, for a and b of as many binary digits
RatioAligned[a \in Bigs, b \in Bigs, t \in Int] ==
    IF BigLess[a, b] THEN RatioNormal[BigMulAdd[a, 2, 0], b, t - 1]
    ELSE RatioNormal[a, b, t]

\* num / den rounded to a magnitude, for num > 0 and den > 0
RatioToMag[num \in Bigs, den \in Bigs] ==
    LET t == BigBitLen[num] - BigBitLen[den]
    IN  RatioAligned[IF t < 0 THEN BigShl[num, -t] ELSE num,
                     IF t > 0 THEN BigShl[den, t] ELSE den, t]

\* ds without leading zeros
StripLeadingZeroDigits[ds \in DigitSeqs] ==
    LET nz == {i \in 1..Len(ds) : ds[i] # 0}
    IN  SubSeq(ds, IF nz = {} THEN Len(ds) + 1 ELSE CHOOSE i \in nz : \A j \in nz : i <= j,
               Len(ds))

\* The decimal ds * 10^x rounded to a magnitude, for ds without leading zero.
\* A number of 10^309 or more is past the largest float; one below 10^-324
\* is less than half the least float (2^-1075) and rounds to zero.
DecimalToMagNormal[ds \in DigitSeqs, x \in Int] ==
    IF ds = <<>> THEN MagZero
    ELSE IF x + Len(ds) - 1 > 308
    THEN [bits |-> <<1>> \o Zeros(MantissaBits - 1), e |-> MaxExponent + 1]
    ELSE IF x + Len(ds) - 1 < -324 THEN MagZero
    ELSE RatioToMag[BigMulPow10[BigFromDigits[ds], IF x > 0 THEN x ELSE 0],
                    BigMulPow10[<<1>>, IF x < 0 THEN -x ELSE 0]]

\* the decimal ds * 10^x rounded to a magnitude
DecimalToMag[ds \in DigitSeqs, x \in Int] ==
    DecimalToMagNormal[StripLeadingZeroDigits[ds], x]

\* the magnitude of a natural number below 2^31
MagOfNat[n \in Nat] ==
    IF n = 0 THEN MagZero ELSE RoundToDouble[IntBits(n), Len(IntBits(n)) - 1, FALSE]

\* x < y on binary digits of equal length
BitsLess[x \in BitSeqs, y \in BitSeqs] ==
    \E i \in 1..Len(x) : x[i] < y[i] /\ \A j \in 1..(i - 1) : x[j] = y[j]

\* x < y on magnitudes
MagLess[x \in Mags, y \in Mags] ==
    IF y = MagZero THEN FALSE
    ELSE IF x = MagZero THEN TRUE
    ELSE IF x.e # y.e THEN x.e < y.e
    ELSE BitsLess[x.bits, y.bits]

\* x - y on binary digits of equal length, x >= y: digit i borrows from
\* digit i - 1 iff the digits after i - 1 of x are less than those of y
BitsSub[x \in BitSeqs, y \in BitSeqs] ==
    LET n == Len(x)
        borrow(i) == \E j \in (i + 1)..n :
                        x[j] < y[j] /\ \A k \in (i + 1)..(j - 1) : x[k] = y[k]
    IN  [i \in 1..n |-> (x[i] - y[i] - (IF borrow(i) THEN 1 ELSE 0) + 2) % 2]

\* x + y on binary digits of equal length, one digit longer: digit i gets a
\* carry iff some later digit pair is 1 + 1 and every pair between sums to 1
BitsAdd[x \in BitSeqs, y \in BitSeqs] ==
    LET n == Len(x)
        carry(i) == \E j \in (i + 1)..n :
                       x[j] + y[j] = 2 /\ \A k \in (i + 1)..(j - 1) : x[k] + y[k] = 1
    IN  [i \in 0..n |-> IF i = 0 THEN (IF carry(0) THEN 1 ELSE 0)
                        ELSE (x[i] + y[i] + (IF carry(i) THEN 1 ELSE 0)) % 2]

\* the digits after which a smaller operand cannot change the rounded result
GuardBits == 60

\* x - y on magnitudes, x >= y: the exact difference, rounded
MagSub[x \in Mags, y \in Mags] ==
    IF y = MagZero THEN x
    ELSE IF x = y THEN MagZero
    ELSE IF x.e - y.e > GuardBits THEN x
    ELSE LET sh == x.e - y.e
             d  == BitsSub[x.bits \o Zeros(sh), Zeros(sh) \o y.bits]
             lz == LeadingZeros[d]
         IN  RoundToDouble[SubSeq(d, lz + 1, Len(d)), x.e - lz, FALSE]

\* x + y on magnitudes, x >= y: the exact sum, rounded
MagAdd[x \in Mags, y \in Mags] ==
    IF y = MagZero THEN x
    ELSE IF x.e - y.e > GuardBits THEN x
    ELSE LET sh == x.e - y.e
             s  == BitsAdd[x.bits \o Zeros(sh), Zeros(sh) \o y.bits]
             d  == [i \in 1..(MantissaBits + sh + 1) |-> s[i - 1]]
             lz == LeadingZeros[d]
         IN  RoundToDouble[SubSeq(d, lz + 1, Len(d)), x.e + 1 - lz, FALSE]

IsZero(f) == f.k = "fin" /\ f.bits = <<>>

Positive(f) == f.k # "nan" /\ ~f.neg /\ ~IsZero(f)

Negative(f) == f.k # "nan" /\ f.neg /\ ~IsZero(f)

\* abs(x) < abs(y), for floats that are numbers
AbsLess[x \in Floats, y \in Floats] ==
    IF x.k = "inf" THEN FALSE
    ELSE IF y.k = "inf" THEN TRUE
    ELSE MagLess[Mag(x), Mag(y)]

\* x < y: False when either is NaN; -0.0 equals 0.0
FloatLess[x \in Floats, y \in Floats] ==
    IF x.k = "nan" \/ y.k = "nan" THEN FALSE
    ELSE IF Negative(x) THEN (IF Negative(y) THEN AbsLess[y, x] ELSE TRUE)
    ELSE IF Positive(x) THEN Positive(y) /\ AbsLess[x, y]
    ELSE Positive(y)

\* x <= y: False when either is NaN
FloatLessEq[x \in Floats, y \in Floats] ==
    x.k # "nan" /\ y.k # "nan" /\ ~FloatLess[y, x]

\* abs(x - y): NaN when either is NaN or both are the same infinity
FloatAbsDiff[x \in Floats, y \in Floats] ==
    IF x.k = "nan" \/ y.k = "nan" THEN FloatNaN
    ELSE IF x.k = "inf" /\ y.k = "inf"
    THEN (IF x.neg = y.neg THEN FloatNaN ELSE FloatInf(FALSE))
    ELSE IF x.k = "inf" \/ y.k = "inf" THEN FloatInf(FALSE)
    ELSE IF x.neg = y.neg
    THEN MagToFloat[FALSE, IF MagLess[Mag(x), Mag(y)] THEN MagSub[Mag(y), Mag(x)]
                           ELSE MagSub[Mag(x), Mag(y)]]
    ELSE MagToFloat[FALSE, IF MagLess[Mag(x), Mag(y)] THEN MagAdd[Mag(y), Mag(x)]
                           ELSE MagAdd[Mag(x), Mag(y)]]

\* the decimal digits of a natural number, as numbers
NatDigits(n) == [i \in 1..Len(IntDigits(n)) |-> DigitValue(IntDigits(n)[i])]

\* the float nearest to the decimal a / DecimalScale
FloatOfMilli[a \in Nat] == MagToFloat[FALSE, DecimalToMag[NatDigits(a), -3]]

-----------------------------------------------------------------------------
(* float(str): the text of a number read as Python reads it.               *)

\* the position of the first character of s that is in set; Len(s) + 1 if none
FirstOf(s, set) ==
    IF \E i \in 1..Len(s) : s[i] \in set
    THEN CHOOSE i \in 1..Len(s) : s[i] \in set /\ \A j \in 1..(i - 1) : s[j] \notin set
    ELSE Len(s) + 1

\* an underscore stands between two digits
UnderscoresOk(s) ==
    \A i \in 1..Len(s) :
        s[i] = "_" => i > 1 /\ i < Len(s) /\ IsDigit(s[i - 1]) /\ IsDigit(s[i + 1])

NotUnderscore(c) == c # "_"

\* MAX_ABS_EXP of the conversion: an exponent written with more than nine
\* significant digits is read as this one
HugeExponent == 1100000000

\* MAX_DIGITS of the conversion: a text with more digits than this, leading
\* zeros aside, or with more digits after the point, is not a number
MaxDigits == 1000000000

\* The text of an unsigned decimal number: digits with at most one "." and
\* at least one digit, then possibly "e" or "E", a sign and digits.  The
\* number is digits * 10^x, x being the exponent as read less the number of
\* digits after the point.
ParseDecimal(u) ==
    LET ePos      == FirstOf(u, {"e", "E"})
        mant      == SubSeq(u, 1, ePos - 1)
        expo      == SubSeq(u, ePos + 1, Len(u))
        dots      == {i \in 1..Len(mant) : mant[i] = "."}
        dot       == IF dots = {} THEN Len(mant) + 1 ELSE CHOOSE i \in dots : TRUE
        ip        == SubSeq(mant, 1, dot - 1)
        fp        == SubSeq(mant, dot + 1, Len(mant))
        expNeg    == expo # <<>> /\ expo[1] = "-"
        expDigits == IF expo # <<>> /\ expo[1] \in {"+", "-"} THEN Tail(expo) ELSE expo
        expSig    == LStripOf(expDigits, {"0"})
        expAbs    == IF Len(expSig) > 9 THEN HugeExponent ELSE DigitsValue(expSig)
        naoZero   == {"1", "2", "3", "4", "5", "6", "7", "8", "9"}
        ndigits   == IF FirstOf(ip, naoZero) <= Len(ip)
                     THEN Len(ip) - FirstOf(ip, naoZero) + 1 + Len(fp)
                     ELSE Len(fp) - FirstOf(fp, naoZero) + 1
        mantOk    == /\ Cardinality(dots) <= 1
                     /\ AllDigits(ip) /\ AllDigits(fp)
                     /\ Len(ip) + Len(fp) >= 1
                     /\ ndigits <= MaxDigits /\ Len(fp) <= MaxDigits
        expOk     == ePos > Len(u) \/ (expDigits # <<>> /\ AllDigits(expDigits))
    IN  IF mantOk /\ expOk
        THEN [ok     |-> TRUE,
              digits |-> [i \in 1..Len(ip) |-> DigitValue(ip[i])]
                            \o [i \in 1..Len(fp) |-> DigitValue(fp[i])],
              x      |-> (IF ePos > Len(u) THEN 0
                          ELSE IF expNeg THEN -expAbs ELSE expAbs) - Len(fp)]
        ELSE [ok |-> FALSE, digits |-> <<>>, x |-> 0]

Numbers == [ok : BOOLEAN, k : {"fin", "inf", "nan"}, neg : BOOLEAN, digits : DigitSeqs, x : Int]

\* an unsigned decimal literal read: its digits and its power of ten
Decimals == [ok : BOOLEAN, digits : DigitSeqs, x : Int]

\* the number of sign neg that the text parsed as d is
NumberOfDecimal[neg \in BOOLEAN, d \in Decimals] ==
    [ok |-> d.ok, k |-> "fin", neg |-> neg, digits |-> d.digits, x |-> d.x]

\* the text after the sign: "inf", "infinity" or "nan" in any case, or a
\* decimal number
ParseSigned[neg \in BOOLEAN, u \in Seq(STRING)] ==
    IF Lower(u) \in {<<"i", "n", "f">>, <<"i", "n", "f", "i", "n", "i", "t", "y">>}
    THEN [ok |-> TRUE, k |-> "inf", neg |-> neg, digits |-> <<>>, x |-> 0]
    ELSE IF Lower(u) = <<"n", "a", "n">>
    THEN [ok |-> TRUE, k |-> "nan", neg |-> FALSE, digits |-> <<>>, x |-> 0]
    ELSE NumberOfDecimal[neg, ParseDecimal(u)]

\* The text of a number as float() reads it: surrounding whitespace is
\* dropped; underscores between digits are dropped; then a sign and "inf",
\* "infinity" or "nan", or a decimal number digits * 10^x.  ok is FALSE
\* where Python raises ValueError.  (Decimal digits of other scripts, which
\* float() also reads, are outside the alphabet.)
ParseNumber(s0) ==
    LET s == RStripOf(LStripOf(s0, FloatWhitespace), FloatWhitespace)
        t == IF UnderscoresOk(s) THEN SelectSeq(s, NotUnderscore) ELSE <<"_">>
        sinal == t # <<>> /\ t[1] \in {"+", "-"}
    IN  ParseSigned[sinal /\ t[1] = "-", IF sinal THEN Tail(t) ELSE t]

\* the float nearest to a number read from text
FloatOfNumber[p \in Numbers] ==
    IF ~p.ok THEN FloatZero
    ELSE IF p.k = "inf" THEN FloatInf(p.neg)
    ELSE IF p.k = "nan" THEN FloatNaN
    ELSE MagToFloat[p.neg, DecimalToMag[p.digits, p.x]]

\* what float() gives for a number read from text
ParseResult[p \in Numbers] == [ok |-> p.ok, f |-> FloatOfNumber[p]]

\* float(str)
ParseFloat(s0) == ParseResult[ParseNumber(s0)]

-----------------------------------------------------------------------------
(* repr(float) and format(float, ',.2f'): the float written in decimal.    *)

\* the value of a magnitude that is not zero is MagNum / MagDen
MagNum[m \in Mags] ==
    IF m.e >= MantissaBits - 1 THEN BigShl[BigFromBits[m.bits], m.e - (MantissaBits - 1)]
    ELSE BigFromBits[m.bits]

MagDen[m \in Mags] ==
    IF m.e < MantissaBits - 1 THEN BigShl[<<1>>, (MantissaBits - 1) - m.e] ELSE <<1>>

\* num / den * 10^dexp with num / den brought into [1, 10)
DecimalNormal[num \in Bigs, den \in Bigs, dexp \in Int] ==
    IF BigLess[num, den] THEN DecimalNormal[BigMulAdd[num, 10, 0], den, dexp - 1]
    ELSE IF ~BigLess[num, BigMulAdd[den, 10, 0]]
    THEN DecimalNormal[num, BigMulAdd[den, 10, 0], dexp + 1]
    ELSE [num |-> num, den |-> den, dexp |-> dexp]

\* a magnitude that is not zero as num / den * 10^dexp, num / den in [1, 10);
\* 30103 / 100000 approximates log10(2)
DecimalOfMag[m \in Mags] ==
    LET est == (m.e * 30103) \div 100000
    IN  DecimalNormal[BigMulPow10[MagNum[m], IF est < 0 THEN -est ELSE 0],
                      BigMulPow10[MagDen[m], IF est > 0 THEN est ELSE 0], est]

\* ds + 1 in the last place (one digit longer when ds is all nines)
IncDigits[ds \in DigitSeqs] ==
    IF \A i \in 1..Len(ds) : ds[i] = 9 THEN <<1>> \o Zeros(Len(ds))
    ELSE LET z == CHOOSE i \in 1..Len(ds) :
                     ds[i] # 9 /\ \A j \in (i + 1)..Len(ds) : ds[j] = 9
         IN  [i \in 1..Len(ds) |-> IF i < z THEN ds[i] ELSE IF i = z THEN ds[i] + 1 ELSE 0]

\* ds rounded at its last digit t, nonzero digits following iff sticky: half to even
RoundDigits[ds \in DigitSeqs, t \in 0..9, sticky \in BOOLEAN] ==
    IF t > 5 \/ (t = 5 /\ (sticky \/ (ds # <<>> /\ ds[Len(ds)] % 2 = 1)))
    THEN IncDigits[ds] ELSE ds

ReprMaxDigits == 17

\* The shortest decimal of at least p digits that float() reads back as the
\* magnitude m: the nearer of the two p-digit decimals around m first.  ds
\* holds the first digits of m, of which the first counts 10^dexp.  The
\* decimal is digits * 10^x.
Shortest[m \in Mags, ds \in DigitSeqs, sticky \in BOOLEAN, dexp \in Int, p \in Nat] ==
    LET lo    == SubSeq(ds, 1, p)
        resto == sticky \/ \E i \in (p + 2)..Len(ds) : ds[i] # 0
        c1    == RoundDigits[lo, ds[p + 1], resto]
        c2    == IF c1 = lo THEN IncDigits[lo] ELSE lo
        x     == dexp - p + 1
    IN  IF p >= ReprMaxDigits THEN [digits |-> c1, x |-> x]
        ELSE IF DecimalToMag[c1, x] = m THEN [digits |-> c1, x |-> x]
        ELSE IF DecimalToMag[c2, x] = m THEN [digits |-> c2, x |-> x]
        ELSE Shortest[m, ds, sticky, dexp, p + 1]

\* ds without zeros at its end
StripTrailingZeroDigits[ds \in DigitSeqs] ==
    LET nz == {i \in 1..Len(ds) : ds[i] # 0}
    IN  SubSeq(ds, 1, IF nz = {} THEN 0 ELSE CHOOSE i \in nz : \A j \in nz : j <= i)

\* the characters of a sequence of digits
DigitText(ds) == [i \in 1..Len(ds) |-> DigitChars[ds[i] + 1]]

\* repr of the number 0.ds * 10^decpt: with an exponent when decpt is below
\* -3 or above 16, else with a decimal point
ReprText[ds \in DigitSeqs, decpt \in Int] ==
    IF decpt <= -4 \/ decpt > 16
    THEN DigitText(<<ds[1]>>)
         \o (IF Len(ds) > 1 THEN <<".">> \o DigitText(Tail(ds)) ELSE <<>>)
         \o <<"e", IF decpt - 1 < 0 THEN "-" ELSE "+">>
         \o (IF decpt - 1 < 10 /\ decpt - 1 > -10 THEN <<"0">> ELSE <<>>)
         \o IntDigits(IF decpt - 1 < 0 THEN 1 - decpt ELSE decpt - 1)
    ELSE IF decpt <= 0
    THEN <<"0", ".">> \o DigitText(Zeros(-decpt)) \o DigitText(ds)
    ELSE IF decpt >= Len(ds)
    THEN DigitText(ds) \o DigitText(Zeros(decpt - Len(ds))) \o <<".", "0">>
    ELSE DigitText(SubSeq(ds, 1, decpt)) \o <<".">> \o DigitText(SubSeq(ds, decpt + 1, Len(ds)))

\* significant digits with the place of the decimal point
DigitPoints == [digits : DigitSeqs, x : Int]

\* a quotient in decimal: its digits, and whether a remainder was left
DigitQuotients == [digits : DigitSeqs, sticky : BOOLEAN]

\* a magnitude as the ratio num / den times 10^dexp
Ratios == [num : Bigs, den : Bigs, dexp : Int]

\* repr of the shortest decimal [digits, x]
ShortestText[c \in DigitPoints] ==
    ReprText[StripTrailingZeroDigits[c.digits], c.x + Len(c.digits)]

\* repr of the magnitude m, whose digits q.digits start at 10^dexp
ReprOfDigits[m \in Mags, q \in DigitQuotients, dexp \in Int] ==
    ShortestText[Shortest[m, q.digits, q.sticky, dexp, 1]]

\* repr of the magnitude m, which is d: from its first twenty digits
ReprOfDecimal[m \in Mags, d \in Ratios] ==
    ReprOfDigits[m, QuotDigits[d.num, BigMulAdd[d.den, 10, 0], 5, <<>>], d.dexp]

\* repr of a magnitude that is not zero
MagRepr[m \in Mags] == ReprOfDecimal[m, DecimalOfMag[m]]

\* repr(f), which is also str(f)
FloatRepr[f \in Floats] ==
    IF f.k = "nan" THEN <<"n", "a", "n">>
    ELSE (IF f.neg THEN <<"-">> ELSE <<>>)
         \o (IF f.k = "inf" THEN <<"i", "n", "f">>
             ELSE IF f.bits = <<>> THEN <<"0", ".", "0">>
             ELSE MagRepr[Mag(f)])

\* The digits down to the hundredths, rounded half to even and three at
\* least, of a number whose first n digits, down to the thousandths, start
\* q.digits
CentOfDigits[q \in DigitQuotients, n \in Nat] ==
    LET r == RoundDigits[SubSeq(q.digits, 1, n - 1), q.digits[n],
                         q.sticky \/ \E i \in (n + 1)..Len(q.digits) : q.digits[i] # 0]
    IN  Zeros(3 - Len(r)) \o r

\* the same for the magnitude d, from its digits down to the thousandths
CentOfDecimal[d \in Ratios] ==
    IF d.dexp + 4 < 1 THEN <<0, 0, 0>>
    ELSE CentOfDigits[QuotDigits[d.num, BigMulAdd[d.den, 10, 0], (d.dexp + 7) \div 4, <<>>],
                      d.dexp + 4]

\* the same for a magnitude
CentDigits[m \in Mags] ==
    IF m = MagZero THEN <<0, 0, 0>> ELSE CentOfDecimal[DecimalOfMag[m]]

\* digits with "," between groups of three: counted from the right, every
\* fourth character is a ","
Agrupado(ds) ==
    LET n == Len(ds) + (Len(ds) - 1) \div 3
    IN  [i \in 1..n |-> IF (n - i) % 4 = 3 THEN ","
                        ELSE ds[Len(ds) - ((n - i) - (n - i) \div 4)]]

\* format(f, ',.2f')
FloatFixed2[f \in Floats] ==
    IF f.k = "nan" THEN <<"n", "a", "n">>
    ELSE (IF f.neg THEN <<"-">> ELSE <<>>)
         \o (IF f.k = "inf" THEN <<"i", "n", "f">>
             ELSE Com(DigitText(CentDigits[Mag(f)]),
                      LAMBDA c : Agrupado(SubSeq(c, 1, Len(c) - 2)) \o <<".">>
                                 \o SubSeq(c, Len(c) - 1, Len(c))))

-----------------------------------------------------------------------------
(* Python values that are numbers.                                         *)

\* repr of the float nearest to n / DecimalScale, for n below 10^15: the
\* shortest decimal that reads back as that float is n / DecimalScale
\* itself: 1500.0, 100.009, 0.05
MilliRepr(n) ==
    LET f == n % DecimalScale
        d == <<DigitChars[(f \div 100) + 1], DigitChars[((f \div 10) % 10) + 1],
               DigitChars[(f % 10) + 1]>>
    IN  IntDigits(n \div DecimalScale) \o <<".">> \o StripTrailingZeros(d)

\* the float nearest to n / DecimalScale
FloatV(n) == FloatR(MilliRepr(n))

\* str(v)
PyStr(v) ==
    CASE v.t = "str"   -> v.s
      [] v.t = "int"   -> IF v.n < 0 THEN <<"-">> \o IntDigits(-v.n) ELSE IntDigits(v.n)
      [] v.t = "float" -> v.s
      [] OTHER         -> <<"N", "o", "n", "e">>

\* float(v), as the binary64 number the comparisons work on: ok is FALSE
\* where Python raises ValueError (a str that is no number) or TypeError
\* (None)
ToFloat(v) ==
    CASE v.t \in {"float", "str"} -> ParseFloat(v.s)
      [] v.t = "int" -> [ok |-> TRUE,
                         f  |-> MagToFloat[v.n < 0,
                                           MagOfNat[IF v.n < 0 THEN -v.n ELSE v.n]]]
      [] OTHER -> [ok |-> FALSE, f |-> FloatZero]

\* float(v), as a Python value, where float(v) does not raise
PyFloat(v) == IF v.t = "float" THEN v ELSE FloatR(FloatRepr[ToFloat(v).f])

-----------------------------------------------------------------------------
(* Configuration (src/config.py) and the strings of the result rows.       *)

\* 0.01, in thousandths
TOLERANCIA_COMPARACAO_VALORES == 10

TIPOS_DOCUMENTOS_VALIDOS ==
    << <<"n", "o", "t", "a", " ", "f", "i", "s", "c", "a", "l">>,
       <<"d", "a", "n", "f", "e">>,
       <<"f", "a", "t", "u", "r", "a", " ", "t", "e", "l", "e", "f", "o", "n", "i", "a">>,
       <<"f", "a", "t", "u", "r", "a", " ", "c", "o", "n", "c", "e", "s", "s", "i", "o",
         "n", a_acute, "r", "i", "a">>,
       <<"f", "a", "t", "u", "r", "a">>,
       <<"n", "f">>,
       <<"n", "f", "e">>,
       <<"n", "f", "-", "e">> >>

NA  == StrV(<<"N", "/", "A">>)
SIM == StrV(<<"S", "I", "M">>)
NAO == StrV(<<"N", A_TILDE, "O">>)

Descartado == StrV(<<"D", "e", "s", "c", "a", "r", "t", "a", "d", "o">>)
Suspeito   == StrV(<<"S", "u", "s", "p", "e", "i", "t", "o">>)
NaoFoiPossivelAnalisar ==
    StrV(<<"N", a_tilde, "o", " ", "f", "o", "i", " ", "p", "o", "s", "s", i_acute,
           "v", "e", "l", " ", "a", "n", "a", "l", "i", "s", "a", "r">>)

\* the dict validar_nota_fiscal returns
Retorno(v1, v2, v3, c) ==
    [pdf_possui_nf_em_despesas        |-> v1,
     valor_pago_menor_igual_declarado |-> v2,
     valor_nf_igual_declarado         |-> v3,
     classificacao_final              |-> c]

-----------------------------------------------------------------------------
(* validar_nota_fiscal, interactive variant (src/app.py).                  *)

\* a variant that compares the type without lower-casing it
possui_documento_valido_app_sem_lower(n) ==
    LET tipo_doc == Strip(PyStr(Get(n, "tipo_documento", StrV(<<>>))))
    IN  /\ \E i \in 1..Len(TIPOS_DOCUMENTOS_VALIDOS) :
              Contains(TIPOS_DOCUMENTOS_VALIDOS[i], tipo_doc)
        /\ tipo_doc # <<>>

\* tipo_doc is a recognized kind of invoice: some configured substring occurs
\* in the trimmed, lower-cased str() of tipo_documento, which is not empty
possui_documento_valido_app(n) ==
    LET tipo_doc == Lower(Strip(PyStr(Get(n, "tipo_documento", StrV(<<>>)))))
    IN  /\ \E i \in 1..Len(TIPOS_DOCUMENTOS_VALIDOS) :
              Contains(TIPOS_DOCUMENTOS_VALIDOS[i], tipo_doc)
        /\ tipo_doc # <<>>

\* a variant that answers NAO only when the ledger number is absent
pdf_possui_nf_app_so_ausente(n) ==
    IF "num_documento_bq" \notin DOMAIN n THEN NAO ELSE SIM

\* Validacao 1: the record carries a ledger document number other than 'N/A'
pdf_possui_nf_app(n) ==
    LET num_documento_bq == Get(n, "num_documento_bq", NA)
    IN  IF num_documento_bq = NA THEN NAO ELSE SIM

\* a variant that compares with < where the program compares with <=
valor_pago_menor_igual_app_estrito(n) ==
    LET valor_pago_bq      == Get(n, "valor_pago_total_bq", NA)
        valor_documento_bq == Get(n, "valor_documento_bq", NA)
    IN  IF valor_pago_bq = NA \/ valor_documento_bq = NA THEN NA
        ELSE Com([x \in {valor_pago_bq, valor_documento_bq} |-> ToFloat(x)],
                 LAMBDA float :
                    IF ~float[valor_pago_bq].ok \/ ~float[valor_documento_bq].ok THEN NA
                    ELSE IF FloatLess[float[valor_pago_bq].f, float[valor_documento_bq].f]
                    THEN SIM ELSE NAO)

\* Validacao 2: ledger paid total <= ledger declared amount
valor_pago_menor_igual_app(n) ==
    LET valor_pago_bq      == Get(n, "valor_pago_total_bq", NA)
        valor_documento_bq == Get(n, "valor_documento_bq", NA)
    IN  IF valor_pago_bq = NA \/ valor_documento_bq = NA THEN NA
        ELSE Com([x \in {valor_pago_bq, valor_documento_bq} |-> ToFloat(x)],
                 LAMBDA float :
                    IF ~float[valor_pago_bq].ok \/ ~float[valor_documento_bq].ok THEN NA
                    ELSE IF FloatLessEq[float[valor_pago_bq].f, float[valor_documento_bq].f]
                    THEN SIM ELSE NAO)

\* a variant that answers 'NAO' where an amount is not a number
valor_nf_igual_declarado_app_sem_excecao(n) ==
    LET valor_total_nf     == Get(n, "valor_total", NA)
        valor_documento_bq == Get(n, "valor_documento_bq", NA)
    IN  IF valor_total_nf = NA \/ valor_documento_bq = NA THEN NA
        ELSE Com([x \in {valor_total_nf, valor_documento_bq} |-> ToFloat(x)],
                 LAMBDA float :
                    IF ~float[valor_total_nf].ok \/ ~float[valor_documento_bq].ok THEN NAO
                    ELSE LET diferenca == FloatAbsDiff[float[valor_total_nf].f,
                                                       float[valor_documento_bq].f]
                         IN  IF FloatLess[diferenca,
                                          FloatOfMilli[TOLERANCIA_COMPARACAO_VALORES]]
                             THEN SIM ELSE NAO)

\* Validacao 3: invoice total within the tolerance of the declared amount
valor_nf_igual_declarado_app(n) ==
    LET valor_total_nf     == Get(n, "valor_total", NA)
        valor_documento_bq == Get(n, "valor_documento_bq", NA)
    IN  IF valor_total_nf = NA \/ valor_documento_bq = NA THEN NA
        ELSE Com([x \in {valor_total_nf, valor_documento_bq} |-> ToFloat(x)],
                 LAMBDA float :
                    IF ~float[valor_total_nf].ok \/ ~float[valor_documento_bq].ok THEN NA
                    ELSE LET diferenca == FloatAbsDiff[float[valor_total_nf].f,
                                                       float[valor_documento_bq].f]
                         IN  IF FloatLess[diferenca,
                                          FloatOfMilli[TOLERANCIA_COMPARACAO_VALORES]]
                             THEN SIM ELSE NAO)

\* a variant that discards whatever has no NAO
classificacao_app_sem_nao(respostas) ==
    IF \E i \in 1..Len(respostas) : respostas[i] = NAO THEN Suspeito
    ELSE Descartado

\* a variant that gives up on an answer that is neither SIM nor NAO
classificacao_app_na_inconclusivo(respostas) ==
    IF \A i \in 1..Len(respostas) : respostas[i] = SIM THEN Descartado
    ELSE IF \E i \in 1..Len(respostas) : respostas[i] = NAO THEN Suspeito
    ELSE NaoFoiPossivelAnalisar

\* Classificacao final of the three answers
classificacao_app(respostas) ==
    IF \A i \in 1..Len(respostas) : respostas[i] = SIM THEN Descartado
    ELSE IF \E i \in 1..Len(respostas) : respostas[i] = NAO THEN Suspeito
    ELSE Suspeito

\* a variant that looks at 'erro' after the type and the ledger number
validar_nota_fiscal_app_erro_por_ultimo(n) ==
    IF ~possui_documento_valido_app(n)
    THEN Retorno(NA, NA, NA, NaoFoiPossivelAnalisar)
    ELSE IF pdf_possui_nf_app(n) = NAO
    THEN Retorno(NAO, NA, NA, Suspeito)
    ELSE IF "erro" \in DOMAIN n
    THEN Retorno(NA, NA, NA, NaoFoiPossivelAnalisar)
    ELSE Com(<<pdf_possui_nf_app(n),
               valor_pago_menor_igual_app(n),
               valor_nf_igual_declarado_app(n)>>,
             LAMBDA r : Retorno(r[1], r[2], r[3], classificacao_app(r)))

\* a variant whose classification reads the invoice total: a record without
\* one is not analysed
validar_nota_fiscal_app_por_valor(n) ==
    IF "erro" \in DOMAIN n
    THEN Retorno(NA, NA, NA, NaoFoiPossivelAnalisar)
    ELSE IF ~possui_documento_valido_app(n)
    THEN Retorno(NA, NA, NA, NaoFoiPossivelAnalisar)
    ELSE IF pdf_possui_nf_app(n) = NAO
    THEN Retorno(NAO, NA, NA, Suspeito)
    ELSE Com(<<pdf_possui_nf_app(n),
               valor_pago_menor_igual_app(n),
               valor_nf_igual_declarado_app(n)>>,
             LAMBDA r : Retorno(r[1], r[2], r[3],
                                IF Get(n, "valor_total", NA) = NA
                                THEN NaoFoiPossivelAnalisar
                                ELSE classificacao_app(r)))

\* a variant that gives up on a record that already carries a classification
validar_nota_fiscal_app_so_uma_vez(n) ==
    IF "classificacao_final" \in DOMAIN n
    THEN Retorno(NA, NA, NA, NaoFoiPossivelAnalisar)
    ELSE IF "erro" \in DOMAIN n
    THEN Retorno(NA, NA, NA, NaoFoiPossivelAnalisar)
    ELSE IF ~possui_documento_valido_app(n)
    THEN Retorno(NA, NA, NA, NaoFoiPossivelAnalisar)
    ELSE IF pdf_possui_nf_app(n) = NAO
    THEN Retorno(NAO, NA, NA, Suspeito)
    ELSE Com(<<pdf_possui_nf_app(n),
               valor_pago_menor_igual_app(n),
               valor_nf_igual_declarado_app(n)>>,
             LAMBDA r : Retorno(r[1], r[2], r[3], classificacao_app(r)))

\* validar_nota_fiscal of src/app.py
validar_nota_fiscal_app(n) ==
    IF "erro" \in DOMAIN n
    THEN Retorno(NA, NA, NA, NaoFoiPossivelAnalisar)
    ELSE IF ~possui_documento_valido_app(n)
    THEN Retorno(NA, NA, NA, NaoFoiPossivelAnalisar)
    ELSE IF pdf_possui_nf_app(n) = NAO
    THEN Retorno(NAO, NA, NA, Suspeito)
    ELSE Com(<<pdf_possui_nf_app(n),
               valor_pago_menor_igual_app(n),
               valor_nf_igual_declarado_app(n)>>,
             LAMBDA r : Retorno(r[1], r[2], r[3], classificacao_app(r)))

-----------------------------------------------------------------------------
(* validar_nota_fiscal, batch variant (src/extrair_notas_fiscais.py).      *)

\* tipo_doc is a recognized kind of invoice: some configured substring occurs
\* in the trimmed, lower-cased str() of tipo_documento, which is not empty
possui_documento_valido_batch(n) ==
    LET tipo_doc == Lower(Strip(PyStr(Get(n, "tipo_documento", StrV(<<>>)))))
    IN  /\ \E i \in 1..Len(TIPOS_DOCUMENTOS_VALIDOS) :
              Contains(TIPOS_DOCUMENTOS_VALIDOS[i], tipo_doc)
        /\ tipo_doc # <<>>

\* Validacao 1: the record carries a ledger document number other than 'N/A'
pdf_possui_nf_batch(n) ==
    LET num_documento_bq == Get(n, "num_documento_bq", NA)
    IN  IF num_documento_bq = NA THEN NAO ELSE SIM

\* a variant that takes a text for no amount, where float() parses it
valor_pago_menor_igual_batch_sem_texto(n) ==
    LET valor_pago_bq      == Get(n, "valor_pago_total_bq", NA)
        valor_documento_bq == Get(n, "valor_documento_bq", NA)
    IN  IF valor_pago_bq = NA \/ valor_documento_bq = NA THEN NA
        ELSE IF valor_pago_bq.t = "str" \/ valor_documento_bq.t = "str" THEN NA
        ELSE Com([x \in {valor_pago_bq, valor_documento_bq} |-> ToFloat(x)],
                 LAMBDA float :
                    IF ~float[valor_pago_bq].ok \/ ~float[valor_documento_bq].ok THEN NA
                    ELSE IF FloatLessEq[float[valor_pago_bq].f, float[valor_documento_bq].f]
                    THEN SIM ELSE NAO)

\* Validacao 2: ledger paid total <= ledger declared amount
valor_pago_menor_igual_batch(n) ==
    LET valor_pago_bq      == Get(n, "valor_pago_total_bq", NA)
        valor_documento_bq == Get(n, "valor_documento_bq", NA)
    IN  IF valor_pago_bq = NA \/ valor_documento_bq = NA THEN NA
        ELSE Com([x \in {valor_pago_bq, valor_documento_bq} |-> ToFloat(x)],
                 LAMBDA float :
                    IF ~float[valor_pago_bq].ok \/ ~float[valor_documento_bq].ok THEN NA
                    ELSE IF FloatLessEq[float[valor_pago_bq].f, float[valor_documento_bq].f]
                    THEN SIM ELSE NAO)

\* Validacao 3: invoice total within the tolerance of the declared amount
valor_nf_igual_declarado_batch(n) ==
    LET valor_total_nf     == Get(n, "valor_total", NA)
        valor_documento_bq == Get(n, "valor_documento_bq", NA)
    IN  IF valor_total_nf = NA \/ valor_documento_bq = NA THEN NA
        ELSE Com([x \in {valor_total_nf, valor_documento_bq} |-> ToFloat(x)],
                 LAMBDA float :
                    IF ~float[valor_total_nf].ok \/ ~float[valor_documento_bq].ok THEN NA
                    ELSE LET diferenca == FloatAbsDiff[float[valor_total_nf].f,
                                                       float[valor_documento_bq].f]
                         IN  IF FloatLess[diferenca,
                                          FloatOfMilli[TOLERANCIA_COMPARACAO_VALORES]]
                             THEN SIM ELSE NAO)

\* Classificacao final of the three answers
classificacao_batch(respostas) ==
    IF \A i \in 1..Len(respostas) : respostas[i] = SIM THEN Descartado
    ELSE IF \E i \in 1..Len(respostas) : respostas[i] = NAO THEN Suspeito
    ELSE Suspeito

\* validar_nota_fiscal of src/extrair_notas_fiscais.py
validar_nota_fiscal_batch(n) ==
    IF "erro" \in DOMAIN n
    THEN Retorno(NA, NA, NA, NaoFoiPossivelAnalisar)
    ELSE IF ~possui_documento_valido_batch(n)
    THEN Retorno(NA, NA, NA, NaoFoiPossivelAnalisar)
    ELSE IF pdf_possui_nf_batch(n) = NAO
    THEN Retorno(NAO, NA, NA, Suspeito)
    ELSE Com(<<pdf_possui_nf_batch(n),
               valor_pago_menor_igual_batch(n),
               valor_nf_igual_declarado_batch(n)>>,
             LAMBDA r : Retorno(r[1], r[2], r[3], classificacao_batch(r)))

-----------------------------------------------------------------------------
(* The ledger lookup.                                                      *)

\* consultar_bigquery_por_arquivo of src/app.py.  consulta is what the query gives:
\* it raises (falha) or returns rows (linhas), each [num_documento,
\* valor_documento, valor_pago_total].  Anything raised inside, float() of a
\* row's value included, is caught and the function returns [].
consultar_bigquery_por_arquivo_app(consulta, enabled) ==
    LET valores == {"valor_documento", "valor_pago_total"}
        registro(row) ==
            Com([c \in valores |-> IF Truthy(row[c]) THEN PyFloat(row[c]) ELSE NA],
                LAMBDA valor :
                   [num_documento_bq    |-> IF Truthy(row.num_documento)
                                            THEN row.num_documento ELSE NA,
                    valor_documento_bq  |-> valor["valor_documento"],
                    valor_pago_total_bq |-> valor["valor_pago_total"]])
        raises(row) == \E c \in valores : Truthy(row[c]) /\ ~ToFloat(row[c]).ok
    IN  IF ~enabled THEN <<>>
        ELSE IF consulta.falha THEN <<>>
        ELSE IF \E i \in 1..Len(consulta.linhas) : raises(consulta.linhas[i]) THEN <<>>
        ELSE [i \in 1..Len(consulta.linhas) |-> registro(consulta.linhas[i])]

\* consultar_bigquery_por_arquivo of src/extrair_notas_fiscais.py.  consulta is what the query gives:
\* it raises (falha) or returns rows (linhas), each [num_documento,
\* valor_documento, valor_pago_total].  Anything raised inside, float() of a
\* row's value included, is caught and the function returns [].
consultar_bigquery_por_arquivo_batch(consulta, enabled) ==
    LET valores == {"valor_documento", "valor_pago_total"}
        registro(row) ==
            Com([c \in valores |-> IF Truthy(row[c]) THEN PyFloat(row[c]) ELSE NA],
                LAMBDA valor :
                   [num_documento_bq    |-> IF Truthy(row.num_documento)
                                            THEN row.num_documento ELSE NA,
                    valor_documento_bq  |-> valor["valor_documento"],
                    valor_pago_total_bq |-> valor["valor_pago_total"]])
        raises(row) == \E c \in valores : Truthy(row[c]) /\ ~ToFloat(row[c]).ok
    IN  IF ~enabled THEN <<>>
        ELSE IF consulta.falha THEN <<>>
        ELSE IF \E i \in 1..Len(consulta.linhas) : raises(consulta.linhas[i]) THEN <<>>
        ELSE [i \in 1..Len(consulta.linhas) |-> registro(consulta.linhas[i])]

\* the three ledger fields set to the sentinel
SemRegistro ==
    [num_documento_bq |-> NA, valor_documento_bq |-> NA, valor_pago_total_bq |-> NA]

-----------------------------------------------------------------------------
(* Interactive variant (src/app.py, main): one invoice of the loop.        *)

\* leading zeros removed from the extracted invoice number; a lone "0" stays
normalizar_numero_nf(n) ==
    IF "numero_nf" \in DOMAIN n /\ Truthy(n["numero_nf"])
    THEN LET numero_nf_original == Strip(PyStr(n["numero_nf"]))
             sem_zeros          == LStripZeros(numero_nf_original)
         IN  Update(n, [numero_nf |-> StrV(IF sem_zeros = <<>> THEN <<"0">> ELSE sem_zeros)])
    ELSE n

\* the first ledger row whose trimmed document number equals numero, as a
\* list of one row; the empty list when there is none (registro_matching = None)
RECURSIVE registro_matching_app(_, _)
registro_matching_app(regs, numero_nf_gemini) ==
    IF regs = <<>> THEN <<>>
    ELSE LET num_doc_bq == Strip(PyStr(Get(Head(regs), "num_documento_bq", StrV(<<>>))))
         IN  IF num_doc_bq = numero_nf_gemini THEN <<Head(regs)>>
             ELSE registro_matching_app(Tail(regs), numero_nf_gemini)

\* a variant that gives an invoice without a match the first ledger row
matching_app_com_fallback(n, regs) ==
    IF regs # <<>> /\ "erro" \notin DOMAIN n
    THEN LET numero_nf_gemini == Strip(PyStr(Get(n, "numero_nf", StrV(<<>>))))
             registro_matching == registro_matching_app(regs, numero_nf_gemini)
         IN  IF registro_matching # <<>>
             THEN Update(n, registro_matching[1])
             ELSE Update(n, regs[1])
    ELSE Update(n, SemRegistro)

\* the matching step: the ledger fields the invoice gets
matching_app(n, regs) ==
    IF regs # <<>> /\ "erro" \notin DOMAIN n
    THEN LET numero_nf_gemini == Strip(PyStr(Get(n, "numero_nf", StrV(<<>>))))
             registro_matching == registro_matching_app(regs, numero_nf_gemini)
         IN  IF registro_matching # <<>>
             THEN Update(n, registro_matching[1])
             ELSE Update(n, SemRegistro)
    ELSE Update(n, SemRegistro)

\* the body of the loop over notas_fiscais: the row appended to resultados
processar_nota_app(n, regs) ==
    Com(matching_app(normalizar_numero_nf(n), regs),
        LAMBDA com_bq : Update(com_bq, validar_nota_fiscal_app(com_bq)))

\* str.replace of one character by another
Replace(s, a, b) == [i \in 1..Len(s) |-> IF s[i] = a THEN b ELSE s[i]]

\* formatar_valor_monetario of src/app.py
formatar_valor_monetario(valor) ==
    IF valor \in {NA, StrV(<<"E", "R", "R", "O">>), StrV(<<>>), NoneV}
    THEN IF valor.t = "str" THEN valor ELSE NA
    ELSE Com(ToFloat(valor),
             LAMBDA valor_float :
                IF valor_float.ok
                THEN StrV(Replace(Replace(Replace(<<"R", "$", " ">>
                                                     \o FloatFixed2[valor_float.f],
                                                  ",", "X"), ".", ","), "X", "."))
                ELSE StrV(PyStr(valor)))

\* The ledger rows displayed as other expenses once the analysis is shown:
\* those whose trimmed number is empty, 'N/A', or the trimmed number of no
\* row of resultados.  An entry is the displayed row: the number ('N/A' for
\* an empty one) and the two amounts as formatted text, under the column
\* titles of the table (the first written without its accent).
outras_despesas_app(res, regs) ==
    LET numeros_nf_no_pdf ==
            { Strip(PyStr(Get(res[i], "numero_nf", StrV(<<>>)))) :
                i \in { j \in 1..Len(res) :
                          /\ "erro" \notin DOMAIN res[j]
                          /\ Strip(PyStr(Get(res[j], "numero_nf", StrV(<<>>))))
                                \notin {<<>>, <<"N", "/", "A">>} } }
        outra(reg) ==
            LET num_doc_bq == Strip(PyStr(Get(reg, "num_documento_bq", StrV(<<>>))))
            IN  \/ num_doc_bq = <<>>
                \/ num_doc_bq = <<"N", "/", "A">>
                \/ num_doc_bq \notin numeros_nf_no_pdf
        entrada(reg) ==
            Com([c \in {"valor_documento_bq", "valor_pago_total_bq"} |->
                    formatar_valor_monetario(Get(reg, c, NA))],
                LAMBDA formatado :
                   ("Numero Documento" :>
                       (IF "num_documento_bq" \in DOMAIN reg
                           /\ Truthy(reg["num_documento_bq"])
                        THEN reg["num_documento_bq"] ELSE NA))
                   @@ ("Valor Documento" :> formatado["valor_documento_bq"])
                   @@ ("Valor Pago Total" :> formatado["valor_pago_total_bq"]))
        outras == SelectSeq(regs, outra)
    IN  [i \in 1..Len(outras) |-> entrada(outras[i])]

-----------------------------------------------------------------------------
(* Batch variant (src/extrair_notas_fiscais.py, processar_todos_pdfs): one *)
(* invoice of the loop.                                                    *)

\* The loop over registros_bigquery: registro_matching is the row that the
\* last equal number assigned (a list of one row, empty for None), and
\* registros_nao_matching the rows whose number differs, in order.
RECURSIVE separar_registros(_, _, _, _)
separar_registros(regs, numero_nf_gemini, registro_matching, registros_nao_matching) ==
    IF regs = <<>>
    THEN [registro_matching |-> registro_matching,
          registros_nao_matching |-> registros_nao_matching]
    ELSE LET reg_bq     == Head(regs)
             num_doc_bq == Strip(PyStr(Get(reg_bq, "num_documento_bq", StrV(<<>>))))
         IN  IF num_doc_bq = numero_nf_gemini
             THEN separar_registros(Tail(regs), numero_nf_gemini, <<reg_bq>>,
                                    registros_nao_matching)
             ELSE separar_registros(Tail(regs), numero_nf_gemini, registro_matching,
                                    Append(registros_nao_matching, reg_bq))

\* a variant without the fallback: an invoice that matches no row gets the
\* sentinel fields and every row is left for the extra lines
matching_batch_sem_fallback(n, regs) ==
    LET numero_nf_gemini == Strip(PyStr(Get(n, "numero_nf", StrV(<<>>))))
        sep == separar_registros(regs, numero_nf_gemini, <<>>, <<>>)
    IN  IF sep.registro_matching # <<>>
        THEN [nota |-> Update(n, sep.registro_matching[1]),
              extras |-> sep.registros_nao_matching]
        ELSE [nota |-> Update(n, SemRegistro), extras |-> sep.registros_nao_matching]

\* the matching step: the invoice with the ledger fields it gets, and the
\* ledger rows left for the extra lines
matching_batch(n, regs) ==
    LET numero_nf_gemini == Strip(PyStr(Get(n, "numero_nf", StrV(<<>>))))
        sep == separar_registros(regs, numero_nf_gemini, <<>>, <<>>)
    IN  IF sep.registro_matching # <<>>
        THEN [nota |-> Update(n, sep.registro_matching[1]),
              extras |-> sep.registros_nao_matching]
        ELSE IF sep.registros_nao_matching # <<>>
        THEN [nota |-> Update(n, sep.registros_nao_matching[1]),
              extras |-> Tail(sep.registros_nao_matching)]
        ELSE [nota |-> n, extras |-> <<>>]

\* a variant that appends the extra line without validating it
linha_extra_batch_sem_validar(reg_extra, nome_arquivo, num_paginas) ==
    Update([nome_arquivo      |-> StrV(nome_arquivo),
            total_paginas_pdf |-> IntV(num_paginas),
            numero_pagina     |-> StrV(<<>>),
            cnpj_prestador    |-> StrV(<<>>),
            tipo_documento    |-> StrV(<<>>),
            numero_nf         |-> StrV(<<>>),
            valor_total       |-> StrV(<<>>)],
           reg_extra)

\* an extra line: a ledger row under blank invoice fields, validated
linha_extra_batch(reg_extra, nome_arquivo, num_paginas) ==
    Com(Update([nome_arquivo      |-> StrV(nome_arquivo),
                total_paginas_pdf |-> IntV(num_paginas),
                numero_pagina     |-> StrV(<<>>),
                cnpj_prestador    |-> StrV(<<>>),
                tipo_documento    |-> StrV(<<>>),
                numero_nf         |-> StrV(<<>>),
                valor_total       |-> StrV(<<>>)],
               reg_extra),
        LAMBDA linha : Update(linha, validar_nota_fiscal_batch(linha)))

\* the body of the loop over notas_fiscais: the rows appended to resultados,
\* the invoice's row first
processar_nota_batch(n0, regs, nome_arquivo, num_paginas) ==
    LET n == Update(n0, [nome_arquivo      |-> StrV(nome_arquivo),
                         total_paginas_pdf |-> IntV(num_paginas)])
    IN  IF regs # <<>> /\ "erro" \notin DOMAIN n
        THEN Com(matching_batch(n, regs),
                 LAMBDA m :
                    <<Update(m.nota, validar_nota_fiscal_batch(m.nota))>>
                    \o [i \in 1..Len(m.extras) |->
                           linha_extra_batch(m.extras[i], nome_arquivo, num_paginas)])
        ELSE Com(IF regs = <<>> THEN Update(n, SemRegistro) ELSE n,
                 LAMBDA com_bq : <<Update(com_bq, validar_nota_fiscal_batch(com_bq))>>)

\* the rows of several lists, one list after the other
RECURSIVE Concatenar(_)
Concatenar(listas) ==
    IF listas = <<>> THEN <<>> ELSE Head(listas) \o Concatenar(Tail(listas))

\* The body of the loop over arquivos_pdf for one document processed alone:
\* the extraction, the lookup when the ledger is enabled, and the rows of
\* every extracted invoice.
processar_pdf_batch(pdf, enabled) ==
    Com(IF enabled THEN consultar_bigquery_por_arquivo_batch(pdf.consulta, enabled) ELSE <<>>,
        LAMBDA regs :
            Concatenar([i \in 1..Len(pdf.gemini) |->
                           processar_nota_batch(pdf.gemini[i], regs, pdf.nome, pdf.paginas)]))

-----------------------------------------------------------------------------
(* Input domains of the validator harness.                                 *)

\* marks a key the dict does not have
Missing == [t |-> "missing", s |-> <<>>, n |-> 0]

\* the dict of the fields that are not Missing
MkDict(f) == [k \in {x \in DOMAIN f : f[x] # Missing} |-> f[k]]

\* A record as validar_nota_fiscal receives it.  A record without 'erro'
\* carries numero_nf, as every extracted invoice does.
MkNota(erro, tipo, num_bq, declarado, pago, total) ==
    MkDict([erro                |-> erro,
            numero_nf           |-> IF erro = Missing
                                    THEN StrV(<<"1", "2", "3">>) ELSE Missing,
            tipo_documento      |-> tipo,
            valor_total         |-> total,
            num_documento_bq    |-> num_bq,
            valor_documento_bq  |-> declarado,
            valor_pago_total_bq |-> pago])

\* longest document type enumerated character by character
MaxTipoLen == 3

TipoAlfabeto == {"n", "f", "N", "F", "e", " "}

TiposCurtos == UNION {[1..k -> TipoAlfabeto] : k \in 0..MaxTipoLen}

DANFE      == <<"D", "A", "N", "F", "E">>
Recibo     == <<"R", "e", "c", "i", "b", "o">>

TiposNomeados ==
    { DANFE, Recibo,
      <<" ", "D", "a", "n", "f", "e", "\t">>,
      <<"\r", "\n", "N", "F", "e", "\f">>,
      <<"N", "o", "t", "a", " ", "F", "i", "s", "c", "a", "l">>,
      <<"N", "F", "-", "e">>,
      <<"F", "A", "T", "U", "R", "A", " ", "C", "O", "N", "C", "E", "S", "S", "I", "O",
        "N", A_ACUTE, "R", "I", "A">>,
      <<"C", "o", "n", "f", "e", "r", "e", "n", "c", "i", "a">>,
      <<"B", "o", "l", "e", "t", "o">> }

ErroMsg == StrV(<<"n", "o", "t", "a", " ", "f", "i", "s", "c", "a", "l", " ", "n",
                  a_tilde, "o", " ", "e", "n", "c", "o", "n", "t", "r", "a", "d", "a">>)

Erros == {Missing, ErroMsg}

Num123 == StrV(<<"1", "2", "3">>)

\* every document type, under one combination of ledger fields each way
NotasPorTipo ==
    { MkNota(e, t, nb, FloatV(100000), FloatV(100000), FloatV(100000)) :
        e \in Erros,
        t \in {StrV(x) : x \in TiposCurtos \cup TiposNomeados} \cup {Missing, NoneV},
        nb \in {NA, Num123} }

\* Next to plain amounts: text float() reads as a number that is written
\* with an exponent, a sign, an underscore or surrounding whitespace, and
\* the floats and texts that are infinite or no number.
ValoresDeclarados ==
    { Missing, NA, NoneV, FloatV(0), FloatV(50), FloatV(100000), FloatV(100010),
      FloatV(1500000), StrV(<<>>), StrV(<<"a", "b", "c">>),
      StrV(<<"1", "0", "0", ".", "0", "0">>),
      StrV(<<"i", "n", "f">>), StrV(<<"", "1", "0", "0">>) }

ValoresPagos ==
    { Missing, NA, NoneV, FloatV(0), FloatV(100000), FloatV(100010), StrV(<<>>),
      StrV(<<"a", "b", "c">>),
      StrV(<<"1", "0", "0", ".", "0", "0", "0", "1">>), StrV(<<"-", "1", "0", "0">>),
      StrV(<<"+", "1", "0", "0", "\r">>), FloatR(<<"n", "a", "n">>) }

ValoresTotais ==
    { Missing, NA, NoneV, StrV(<<>>), FloatV(60), FloatV(100000), FloatV(100009),
      FloatV(100020), FloatV(1500010), IntV(100),
      StrV(<<"1", "0", "0", ",", "0", "0">>), StrV(<<" ", "1", "0", "0", ".", "0", "1">>),
      StrV(<<"n", "a", "n">>), StrV(<<"1", "e", "2">>), StrV(<<"1", "_", "0", "0">>),
      FloatR(<<"i", "n", "f">>) }

\* every combination of amounts, under a few document types
NotasPorValor ==
    { MkNota(e, t, nb, d, p, v) :
        e \in Erros,
        t \in {StrV(DANFE), StrV(Recibo), Missing},
        nb \in {Missing, NA, NoneV, Num123},
        d \in ValoresDeclarados, p \in ValoresPagos, v \in ValoresTotais }

NotaInputs == NotasPorTipo \cup NotasPorValor

\* the records validated in pairs
NotasPares ==
    { MkNota(e, t, nb, d, p, v) :
        e \in Erros,
        t \in {StrV(DANFE), StrV(<<" ", "n", "f", "e">>), StrV(Recibo)},
        nb \in {NA, Num123},
        d \in {NA, FloatV(100000)},
        p \in {NA, FloatV(100000), FloatV(100010)},
        v \in {NA, FloatV(100000), FloatV(100020)} }

\* both variants' validar_nota_fiscal on one record
Validar(n) == [app |-> validar_nota_fiscal_app(n), batch |-> validar_nota_fiscal_batch(n)]

\* nothing returned yet
SemRetorno == [app |-> Retorno(Missing, Missing, Missing, Missing),
               batch |-> Retorno(Missing, Missing, Missing, Missing)]

\* the record no harness uses
SemNota == [numero_nf |-> Missing]

vars == <<modo, pc, nota, nota2, validacoes, validacoes2, bigquery_enabled,
          arquivos_pdf, idx, notas_fiscais, registros_bigquery, nota_idx,
          resultados, origem, outras_despesas, consultas, sessao, analises>>

harness  == <<nota, nota2, validacoes, validacoes2>>
pipeline == <<bigquery_enabled, arquivos_pdf, idx, notas_fiscais, registros_bigquery,
              nota_idx, resultados, origem, consultas, sessao, analises>>

\* the pipeline does not run in the validator harnesses
SemPipeline ==
    /\ bigquery_enabled = FALSE
    /\ arquivos_pdf = <<>>
    /\ idx = 0
    /\ notas_fiscais = <<>>
    /\ registros_bigquery = <<>>
    /\ nota_idx = 0
    /\ resultados = <<>>
    /\ origem = <<>>
    /\ outras_despesas = <<>>
    /\ consultas = <<>>
    /\ sessao = <<>>
    /\ analises = <<>>

-----------------------------------------------------------------------------
(* Validator harness: one record, validated by both variants.              *)

InitValidar ==
    /\ modo = "validar"
    /\ pc = "chamar"
    /\ nota \in NotaInputs
    /\ nota2 = SemNota
    /\ validacoes = SemRetorno
    /\ validacoes2 = SemRetorno
    /\ SemPipeline

ValidarNota ==
    /\ modo = "validar"
    /\ pc = "chamar"
    /\ validacoes' = Validar(nota)
    /\ pc' = "retornou"
    /\ UNCHANGED <<outras_despesas, modo, nota, nota2, validacoes2, pipeline>>

NextValidar == ValidarNota

SpecValidar == InitValidar /\ [][NextValidar]_vars

(* Pair harness: two records, each validated by both variants.             *)

InitPares ==
    /\ modo = "pares"
    /\ pc = "chamar"
    /\ nota \in NotasPares
    /\ nota2 \in NotasPares
    /\ validacoes = SemRetorno
    /\ validacoes2 = SemRetorno
    /\ SemPipeline

ValidarPar ==
    /\ modo = "pares"
    /\ pc = "chamar"
    /\ validacoes' = Validar(nota)
    /\ validacoes2' = Validar(nota2)
    /\ pc' = "retornou"
    /\ UNCHANGED <<outras_despesas, modo, nota, nota2, pipeline>>

NextPares == ValidarPar

SpecPares == InitPares /\ [][NextPares]_vars

(* Normalization harness: the invoice number of one extracted record,      *)
(* normalized as the loop of src/app.py does, and then once more.          *)

\* longest invoice number enumerated character by character
MaxNumLen == 4

NumAlfabeto == {"0", "1", " "}

NumerosCurtos == UNION {[1..k -> NumAlfabeto] : k \in 0..MaxNumLen}

NumerosNomeados ==
    { <<"0", "0", "0", "4", "5">>, <<"4", "5">>, <<" ", "0", "0", "7", "\t">>,
      <<"\f", "0", "1", "\r", "\n">>, <<"U+00A0", "7", "">>,
      <<"0", "0", "0", "0", "0", "0">>, <<"N", "/", "A">> }

\* the invoice numbers of the extracted records: strings, integers, floats,
\* null, and no number at all
NumerosNf ==
    {StrV(x) : x \in NumerosCurtos \cup NumerosNomeados}
    \cup {IntV(0), IntV(45), FloatV(45000), FloatV(0), NoneV, Missing}

NotasPorNumero ==
    { MkDict([tipo_documento |-> StrV(DANFE), numero_nf |-> x, valor_total |-> FloatV(100000)]) :
        x \in NumerosNf }

InitNormalizar ==
    /\ modo = "normalizar"
    /\ pc = "chamar"
    /\ nota \in NotasPorNumero
    /\ nota2 = SemNota
    /\ validacoes = SemRetorno
    /\ validacoes2 = SemRetorno
    /\ SemPipeline

\* the normalization of the loop: nota2 is the record normalized
Normalizar ==
    /\ modo = "normalizar"
    /\ pc = "chamar"
    /\ nota2' = normalizar_numero_nf(nota)
    /\ pc' = "normalizou"
    /\ UNCHANGED <<outras_despesas, modo, nota, validacoes, validacoes2, pipeline>>

\* the normalization applied to the normalized record: nota is the record
\* it was given, nota2 the record it gives
Renormalizar ==
    /\ modo = "normalizar"
    /\ pc = "normalizou"
    /\ nota' = nota2
    /\ nota2' = normalizar_numero_nf(nota2)
    /\ pc' = "renormalizou"
    /\ UNCHANGED <<outras_despesas, modo, validacoes, validacoes2, pipeline>>

NextNormalizar ==
    \/ Normalizar
    \/ Renormalizar

SpecNormalizar == InitNormalizar /\ [][NextNormalizar]_vars

(* Revalidation harness: one record validated by both variants, enriched   *)
(* with what one of them returned as the loops do (nota.update(validacoes)) *)
(* and validated again.                                                    *)

NotasRevalidar ==
    { MkNota(e, t, nb, d, p, v) :
        e \in Erros,
        t \in {StrV(DANFE), StrV(Recibo), Missing},
        nb \in {Missing, NA, Num123},
        d \in {NA, NoneV, FloatV(100000), StrV(<<"a", "b", "c">>)},
        p \in {NA, NoneV, FloatV(100000), FloatV(100010)},
        v \in {NA, FloatV(100000), FloatV(100020),
               StrV(<<"1", "0", "0", ",", "0", "0">>)} }

InitRevalidar ==
    /\ modo = "revalidar"
    /\ pc = "chamar"
    /\ nota \in NotasRevalidar
    /\ nota2 = SemNota
    /\ validacoes = SemRetorno
    /\ validacoes2 = SemRetorno
    /\ SemPipeline

\* validar_nota_fiscal(nota): the function reads the record ('erro' in nota,
\* nota.get) and assigns to none of its fields
ValidarPrimeiraVez ==
    /\ modo = "revalidar"
    /\ pc = "chamar"
    /\ validacoes' = Validar(nota)
    /\ pc' = "retornou"
    /\ UNCHANGED <<outras_despesas, modo, nota, nota2, validacoes2, pipeline>>

\* nota.update(validacoes), with what either variant returned: nota2 is the
\* enriched record
Enriquecer ==
    /\ modo = "revalidar"
    /\ pc = "retornou"
    /\ \E variante \in {"app", "batch"} : nota2' = Update(nota, validacoes[variante])
    /\ pc' = "enriquecida"
    /\ UNCHANGED <<outras_despesas, modo, nota, validacoes, validacoes2, pipeline>>

\* validar_nota_fiscal of the enriched record
ValidarDeNovo ==
    /\ modo = "revalidar"
    /\ pc = "enriquecida"
    /\ validacoes2' = Validar(nota2)
    /\ pc' = "revalidou"
    /\ UNCHANGED <<outras_despesas, modo, nota, nota2, validacoes, pipeline>>

NextRevalidar ==
    \/ ValidarPrimeiraVez
    \/ Enriquecer
    \/ ValidarDeNovo

SpecRevalidar == InitRevalidar /\ [][NextRevalidar]_vars

-----------------------------------------------------------------------------
(* The pipeline's inputs: for each document, what the extraction service   *)
(* returns and what the ledger query gives.                                *)

\* most invoices the extraction returns for one document
MaxNotas == 2
\* most rows the ledger query returns for one document
MaxLinhas == 2
\* most documents of a batch
MaxPdfs == 2

Seqs(S, n) == UNION {[1..k -> S] : k \in 0..n}

\* an invoice as the extraction prompt asks for it
NotaExtraida(tipo, numero, total) ==
    [numero_pagina  |-> IntV(1),
     cnpj_prestador |-> StrV(<<"1", "2">>),
     tipo_documento |-> StrV(tipo),
     numero_nf      |-> StrV(numero),
     valor_total    |-> FloatV(total)]

NotasExtraidas ==
    { NotaExtraida(DANFE, <<"1", "2", "3">>, 100000),
      NotaExtraida(DANFE, <<"0", "0", "1", "2", "3">>, 100000),
      NotaExtraida(DANFE, <<"7">>, 100000),
      NotaExtraida(DANFE, <<"1", "2", "3">>, 100020),
      NotaExtraida(Recibo, <<"1", "2", "3">>, 100000) }

\* the extraction service's error record
ExtracaoErro == << [erro |-> ErroMsg] >>

LinhaBQ(num, declarado, pago) ==
    [num_documento |-> num, valor_documento |-> declarado, valor_pago_total |-> pago]

LinhasBQ ==
    { LinhaBQ(StrV(<<"1", "2", "3">>), FloatV(100000), FloatV(100000)),
      LinhaBQ(StrV(<<"0", "0", "1", "2", "3">>), StrV(<<"1", "e", "2">>), IntV(100)),
      LinhaBQ(StrV(<<"1", "2", "3">>), FloatV(100000), FloatV(200000)),
      LinhaBQ(NoneV, FloatV(100000), FloatV(0)) }

Consulta(falha, linhas) == [falha |-> falha, linhas |-> linhas]

NomesPdf == << <<"a", ".", "p", "d", "f">>, <<"b", ".", "p", "d", "f">>,
               <<"c", ".", "p", "d", "f">>, <<"d", ".", "p", "d", "f">> >>

Pdf(i, gemini, consulta) ==
    [nome |-> NomesPdf[i], paginas |-> i, gemini |-> gemini, consulta |-> consulta]

\* one document, every extraction output against every ledger answer
ExtracoesUmPdf == {ExtracaoErro} \cup Seqs(NotasExtraidas, MaxNotas)

ConsultasUmPdf == {Consulta(TRUE, <<>>)} \cup {Consulta(FALSE, l) : l \in Seqs(LinhasBQ, MaxLinhas)}

\* several documents, each from a few extraction outputs and ledger answers
ExtracoesLote ==
    { ExtracaoErro,
      <<NotaExtraida(DANFE, <<"1", "2", "3">>, 100000)>>,
      <<NotaExtraida(DANFE, <<"7">>, 100000)>> }

ConsultasLote ==
    { Consulta(TRUE, <<>>),
      Consulta(FALSE, <<>>),
      Consulta(FALSE, <<LinhaBQ(StrV(<<"1", "2", "3">>), FloatV(100000), FloatV(100000))>>),
      Consulta(FALSE, <<LinhaBQ(StrV(<<"1", "2", "3">>), FloatV(100000), FloatV(100000)),
                        LinhaBQ(StrV(<<"9">>), FloatV(100000), FloatV(200000))>>) }

Lotes ==
    UNION { { [i \in 1..k |-> Pdf(i, f[i][1], f[i][2])] :
                f \in [1..k -> ExtracoesLote \X ConsultasLote] } : k \in 2..MaxPdfs }

SemHarness ==
    /\ nota = SemNota
    /\ nota2 = SemNota
    /\ validacoes = SemRetorno
    /\ validacoes2 = SemRetorno

\* most clicks on "Analisar PDF" in one session
MaxAnalises == 3

\* st.session_state of a new session; pdf_bytes, the content of the
\* document, is left out
SessaoInicial ==
    [analise_concluida |-> FALSE,
     resultados        |-> NoneV,
     nome_arquivo      |-> NoneV,
     num_paginas       |-> IntV(0)]

\* a session starts on the upload page, with the documents the user has at
\* hand
InitApp ==
    /\ modo = "app"
    /\ pc = "upload"
    /\ bigquery_enabled \in BOOLEAN
    /\ \/ \E g \in ExtracoesUmPdf, c \in ConsultasUmPdf :
             /\ bigquery_enabled \/ c = Consulta(FALSE, <<>>)
             /\ arquivos_pdf = <<Pdf(1, g, c)>>
       \/ /\ bigquery_enabled
          /\ arquivos_pdf \in Lotes
    /\ idx = 1
    /\ notas_fiscais = <<>>
    /\ registros_bigquery = <<>>
    /\ nota_idx = 0
    /\ resultados = <<>>
    /\ origem = <<>>
    /\ outras_despesas = <<>>
    /\ consultas = [i \in 1..Len(arquivos_pdf) |-> 0]
    /\ sessao = SessaoInicial
    /\ analises = <<>>
    /\ SemHarness

\* the batch starts at the first document of the folder
InitBatch ==
    /\ modo = "batch"
    /\ pc = "extrair"
    /\ bigquery_enabled \in BOOLEAN
    /\ \/ \E g \in ExtracoesUmPdf, c \in ConsultasUmPdf :
             /\ bigquery_enabled \/ c = Consulta(FALSE, <<>>)
             /\ arquivos_pdf = <<Pdf(1, g, c)>>
       \/ /\ bigquery_enabled
          /\ arquivos_pdf \in Lotes
    /\ idx = 1
    /\ notas_fiscais = <<>>
    /\ registros_bigquery = <<>>
    /\ nota_idx = 0
    /\ resultados = <<>>
    /\ origem = <<>>
    /\ outras_despesas = <<>>
    /\ consultas = [i \in 1..Len(arquivos_pdf) |-> 0]
    /\ sessao = <<>>
    /\ analises = <<>>
    /\ SemHarness

Init == InitApp \/ InitBatch

-----------------------------------------------------------------------------
(* Interactive variant: main of src/app.py.  Each click is a run of the     *)
(* script; a run that analyses a document takes the steps A_Extrair,        *)
(* A_Consultar, A_ProcessarNota and A_Concluir, and st.rerun() starts the   *)
(* run of A_Exibir.  pc is "upload" on the upload page, "erro" on the       *)
(* upload page under the error message, "fim" on the page of results.       *)

\* "Analisar PDF" on an uploaded document, from the upload page or after an
\* error message: processar_pdf_com_gemini; an error record first stops the
\* analysis
A_Extrair ==
    /\ modo = "app"
    /\ pc \in {"upload", "erro"}
    /\ ~sessao["analise_concluida"]
    /\ Len(analises) < MaxAnalises
    /\ \E d \in 1..Len(arquivos_pdf) :
          /\ idx' = d
          /\ notas_fiscais' = arquivos_pdf[d].gemini
          /\ analises' = Append(analises, [pdf |-> d, consultas |-> 0])
    /\ pc' = IF notas_fiscais' # <<>> /\ "erro" \in DOMAIN notas_fiscais'[1]
             THEN "erro" ELSE "consultar"
    /\ registros_bigquery' = <<>>
    /\ nota_idx' = 0
    /\ resultados' = <<>>
    /\ origem' = <<>>
    /\ UNCHANGED <<consultas, outras_despesas, modo, harness, bigquery_enabled, arquivos_pdf,
                   sessao>>

\* one ledger lookup for the document, when a client is connected
A_Consultar ==
    /\ modo = "app"
    /\ pc = "consultar"
    /\ registros_bigquery' =
          IF bigquery_enabled
          THEN consultar_bigquery_por_arquivo_app(arquivos_pdf[idx].consulta, bigquery_enabled)
          ELSE <<>>
    /\ consultas' = IF bigquery_enabled
                     THEN [consultas EXCEPT ![idx] = @ + 1]
                     ELSE consultas
    /\ analises' = IF bigquery_enabled
                    THEN [analises EXCEPT ![Len(analises)].consultas = @ + 1]
                    ELSE analises
    /\ nota_idx' = 1
    /\ resultados' = <<>>
    /\ origem' = <<>>
    /\ pc' = "notas"
    /\ UNCHANGED <<outras_despesas, modo, harness, bigquery_enabled, arquivos_pdf, idx,
                   notas_fiscais, sessao>>

\* one iteration of the loop over notas_fiscais
A_ProcessarNota ==
    /\ modo = "app"
    /\ pc = "notas"
    /\ nota_idx <= Len(notas_fiscais)
    /\ \E linha \in {processar_nota_app(notas_fiscais[nota_idx], registros_bigquery)} :
           /\ notas_fiscais' = [notas_fiscais EXCEPT ![nota_idx] = linha]
           /\ resultados' = Append(resultados, linha)
           /\ origem' = Append(origem, [pdf |-> idx, nota |-> nota_idx, extra |-> FALSE])
    /\ nota_idx' = nota_idx + 1
    /\ UNCHANGED <<consultas, outras_despesas, modo, pc, harness, bigquery_enabled, arquivos_pdf, idx,
                   registros_bigquery, sessao, analises>>

\* the results are stored in the session, the analysis is concluded and
\* st.rerun() ends the run
A_Concluir ==
    /\ modo = "app"
    /\ pc = "notas"
    /\ nota_idx > Len(notas_fiscais)
    /\ sessao' = Update(sessao,
                        [resultados         |-> ListV(resultados),
                         nome_arquivo       |-> StrV(arquivos_pdf[idx].nome),
                         num_paginas        |-> IntV(arquivos_pdf[idx].paginas),
                         registros_bigquery |-> ListV(registros_bigquery),
                         analise_concluida  |-> TRUE])
    /\ pc' = "exibir"
    /\ UNCHANGED <<modo, harness, bigquery_enabled, arquivos_pdf, idx, notas_fiscais,
                   registros_bigquery, nota_idx, resultados, origem, consultas,
                   outras_despesas, analises>>

\* a run of the script on a concluded analysis, "Nova Analise" not clicked:
\* the results of the session are shown, when there are any, and under them
\* the table of other expenses
A_Exibir ==
    /\ modo = "app"
    /\ pc \in {"exibir", "fim"}
    /\ sessao["analise_concluida"]
    /\ outras_despesas' =
          IF Truthy(sessao["resultados"])
             /\ "registros_bigquery" \in DOMAIN sessao
             /\ Truthy(sessao["registros_bigquery"])
          THEN outras_despesas_app(sessao["resultados"].s, sessao["registros_bigquery"].s)
          ELSE <<>>
    /\ pc' = "fim"
    /\ UNCHANGED <<modo, harness, bigquery_enabled, arquivos_pdf, idx, notas_fiscais,
                   registros_bigquery, nota_idx, resultados, origem, consultas,
                   sessao, analises>>

\* "Nova Analise" on the page of results: the session forgets the results,
\* keeps registros_bigquery, and st.rerun() brings the upload page
A_NovaAnalise ==
    /\ modo = "app"
    /\ pc = "fim"
    /\ sessao["analise_concluida"]
    /\ sessao' = Update(sessao,
                        [analise_concluida |-> FALSE,
                         resultados        |-> NoneV,
                         nome_arquivo      |-> NoneV,
                         num_paginas       |-> IntV(0)])
    /\ outras_despesas' = <<>>
    /\ pc' = "upload"
    /\ UNCHANGED <<modo, harness, bigquery_enabled, arquivos_pdf, idx, notas_fiscais,
                   registros_bigquery, nota_idx, resultados, origem, consultas,
                   analises>>

-----------------------------------------------------------------------------
(* Batch variant: processar_todos_pdfs of src/extrair_notas_fiscais.py.    *)

\* processar_pdf_com_gemini
B_Extrair ==
    /\ modo = "batch"
    /\ pc = "extrair"
    /\ notas_fiscais' = arquivos_pdf[idx].gemini
    /\ pc' = "consultar"
    /\ UNCHANGED <<sessao, analises, consultas, outras_despesas, modo, harness, bigquery_enabled, arquivos_pdf, idx,
                   registros_bigquery, nota_idx, resultados, origem>>

\* a variant of the lookup that keeps the rows of the document before when
\* it gets none
B_Consultar_sem_reiniciar ==
    /\ modo = "batch"
    /\ pc = "consultar"
    /\ \E regs \in {IF bigquery_enabled
                    THEN consultar_bigquery_por_arquivo_batch(arquivos_pdf[idx].consulta,
                                                              bigquery_enabled)
                    ELSE <<>>} :
           registros_bigquery' = IF regs = <<>> THEN registros_bigquery ELSE regs
    /\ consultas' = IF bigquery_enabled
                     THEN [consultas EXCEPT ![idx] = @ + 1]
                     ELSE consultas
    /\ nota_idx' = 1
    /\ pc' = "notas"
    /\ UNCHANGED <<sessao, analises, outras_despesas, modo, harness, bigquery_enabled, arquivos_pdf, idx,
                   notas_fiscais, resultados, origem>>

\* one ledger lookup for the document, when BigQuery is enabled
B_Consultar ==
    /\ modo = "batch"
    /\ pc = "consultar"
    /\ registros_bigquery' =
          IF bigquery_enabled
          THEN consultar_bigquery_por_arquivo_batch(arquivos_pdf[idx].consulta, bigquery_enabled)
          ELSE <<>>
    /\ consultas' = IF bigquery_enabled
                     THEN [consultas EXCEPT ![idx] = @ + 1]
                     ELSE consultas
    /\ nota_idx' = 1
    /\ pc' = "notas"
    /\ UNCHANGED <<sessao, analises, outras_despesas, modo, harness, bigquery_enabled, arquivos_pdf, idx,
                   notas_fiscais, resultados, origem>>

\* a variant of the iteration that looks the ledger up again for each invoice
B_ProcessarNota_com_consulta ==
    /\ modo = "batch"
    /\ pc = "notas"
    /\ nota_idx <= Len(notas_fiscais)
    /\ \E linhas \in {processar_nota_batch(notas_fiscais[nota_idx], registros_bigquery,
                                           arquivos_pdf[idx].nome, arquivos_pdf[idx].paginas)} :
           /\ notas_fiscais' = [notas_fiscais EXCEPT ![nota_idx] = linhas[1]]
           /\ resultados' = resultados \o linhas
           /\ origem' = origem \o [i \in 1..Len(linhas) |->
                                      [pdf |-> idx, nota |-> nota_idx, extra |-> i > 1]]
    /\ nota_idx' = nota_idx + 1
    /\ consultas' = IF bigquery_enabled
                     THEN [consultas EXCEPT ![idx] = @ + 1]
                     ELSE consultas
    /\ UNCHANGED <<sessao, analises, outras_despesas, modo, pc, harness, bigquery_enabled, arquivos_pdf, idx,
                   registros_bigquery>>

\* one iteration of the loop over notas_fiscais
B_ProcessarNota ==
    /\ modo = "batch"
    /\ pc = "notas"
    /\ nota_idx <= Len(notas_fiscais)
    /\ \E linhas \in {processar_nota_batch(notas_fiscais[nota_idx], registros_bigquery,
                                           arquivos_pdf[idx].nome, arquivos_pdf[idx].paginas)} :
           /\ notas_fiscais' = [notas_fiscais EXCEPT ![nota_idx] = linhas[1]]
           /\ resultados' = resultados \o linhas
           /\ origem' = origem \o [i \in 1..Len(linhas) |->
                                      [pdf |-> idx, nota |-> nota_idx, extra |-> i > 1]]
    /\ nota_idx' = nota_idx + 1
    /\ UNCHANGED <<sessao, analises, consultas, outras_despesas, modo, pc, harness, bigquery_enabled, arquivos_pdf, idx,
                   registros_bigquery>>

\* the next document, or the end of the batch
B_ProximoPdf ==
    /\ modo = "batch"
    /\ pc = "notas"
    /\ nota_idx > Len(notas_fiscais)
    /\ IF idx < Len(arquivos_pdf)
       THEN idx' = idx + 1 /\ pc' = "extrair"
       ELSE idx' = idx /\ pc' = "fim"
    /\ UNCHANGED <<sessao, analises, consultas, outras_despesas, modo, harness, bigquery_enabled, arquivos_pdf, notas_fiscais,
                   registros_bigquery, nota_idx, resultados, origem>>

NextApp ==
    \/ A_Extrair
    \/ A_Consultar
    \/ A_ProcessarNota
    \/ A_Concluir
    \/ A_Exibir
    \/ A_NovaAnalise

NextBatch ==
    \/ B_Extrair
    \/ B_Consultar
    \/ B_ProcessarNota
    \/ B_ProximoPdf

Next == NextApp \/ NextBatch

Spec == Init /\ [][Next]_vars

-----------------------------------------------------------------------------
(* Properties of validar_nota_fiscal, checked under SpecValidar.           *)

\* what the two variants returned for nota
Retornos == {validacoes.app, validacoes.batch}

\* the record with field k set to x, or without field k when x is Missing
ComCampo(n, k, x) ==
    IF x = Missing
    THEN [j \in (DOMAIN n) \ {k} |-> n[j]]
    ELSE [j \in (DOMAIN n) \cup {k} |-> IF j = k THEN x ELSE n[j]]

UpperChar(c) ==
    IF \E i \in 1..Len(LowerChars) : LowerChars[i] = c
    THEN UpperChars[CHOOSE i \in 1..Len(LowerChars) : LowerChars[i] = c]
    ELSE c

\* str.upper()
Upper(s) == [i \in 1..Len(s) |-> UpperChar(s[i])]

\* The document type as the specification reads it: the text of
\* tipo_documento, trimmed and lower-cased, is not empty and contains one of
\* the configured substrings.
TipoReconhecido(n) ==
    LET t == Lower(Strip(PyStr(Get(n, "tipo_documento", StrV(<<>>)))))
    IN  t # <<>> /\ \E i \in 1..Len(TIPOS_DOCUMENTOS_VALIDOS) :
                        Contains(TIPOS_DOCUMENTOS_VALIDOS[i], t)

\* a recognized-type record without 'erro'
Analisavel(n) == "erro" \notin DOMAIN n /\ TipoReconhecido(n)

TodasSim(r) ==
    /\ r.pdf_possui_nf_em_despesas = SIM
    /\ r.valor_pago_menor_igual_declarado = SIM
    /\ r.valor_nf_igual_declarado = SIM

\* C1: for every record, in both variants, the classification returned is
\* 'Descartado' if and only if the three verdicts returned are all 'SIM'.
C1_DescartadoSseTodasSim ==
    pc = "retornou" =>
        \A r \in Retornos : (r.classificacao_final = Descartado) <=> TodasSim(r)

\* a record that both variants discard, with three 'SIM'
C1_Witness ==
    /\ pc = "retornou"
    /\ \A r \in Retornos : r.classificacao_final = Descartado /\ TodasSim(r)

\* the same record with its type in upper case, in lower case, and between
\* whitespace (a record whose tipo_documento is a str)
VariantesDoTipo(n) ==
    IF "tipo_documento" \in DOMAIN n /\ n["tipo_documento"].t = "str"
    THEN LET t == n["tipo_documento"].s
         IN  { ComCampo(n, "tipo_documento", StrV(Upper(t))),
               ComCampo(n, "tipo_documento", StrV(Lower(t))),
               ComCampo(n, "tipo_documento", StrV(<<" ", "\t">> \o t \o <<"\n", " ">>)) }
    ELSE {}

\* C2: a record without 'erro' whose type, trimmed and lower-cased, is empty
\* or contains no configured substring gets three 'N/A' and 'Nao foi possivel
\* analisar', whatever its total and ledger fields; and a record validates to
\* the same result when its type changes letter case or gains surrounding
\* whitespace.
C2_TipoNaoReconhecido ==
    pc = "retornou" /\ "erro" \notin DOMAIN nota =>
        /\ ~TipoReconhecido(nota) =>
              \A r \in Retornos : r = Retorno(NA, NA, NA, NaoFoiPossivelAnalisar)
        /\ \A v \in VariantesDoTipo(nota) :
              /\ TipoReconhecido(v) = TipoReconhecido(nota)
              /\ Validar(v) = validacoes

\* an unrecognized, non-empty type with a ledger number and equal amounts
C2_Witness ==
    /\ pc = "retornou"
    /\ "erro" \notin DOMAIN nota
    /\ Get(nota, "tipo_documento", NA) = StrV(Recibo)
    /\ Get(nota, "num_documento_bq", NA) = Num123
    /\ Get(nota, "valor_documento_bq", NA) = FloatV(100000)
    /\ Get(nota, "valor_pago_total_bq", NA) = FloatV(100000)
    /\ Get(nota, "valor_total", NA) = FloatV(100000)
    /\ \A r \in Retornos : r = Retorno(NA, NA, NA, NaoFoiPossivelAnalisar)

\* C3: whenever verdict 1 is 'NAO', verdicts 2 and 3 are 'N/A' and the
\* classification is 'Suspeito'; and verdict 1 is 'NAO' for every
\* recognized-type record without 'erro' whose ledger document number is
\* 'N/A', whatever amounts it carries.
C3_SemRegistroSuspeito ==
    pc = "retornou" =>
        \A r \in Retornos :
            /\ r.pdf_possui_nf_em_despesas = NAO =>
                  r = Retorno(NAO, NA, NA, Suspeito)
            /\ Analisavel(nota) /\ Get(nota, "num_documento_bq", Missing) = NA =>
                  r.pdf_possui_nf_em_despesas = NAO

\* a recognized record whose ledger number is 'N/A' next to amounts that agree
C3_Witness ==
    /\ pc = "retornou"
    /\ Analisavel(nota)
    /\ Get(nota, "num_documento_bq", Missing) = NA
    /\ Get(nota, "valor_documento_bq", NA) = FloatV(100000)
    /\ Get(nota, "valor_pago_total_bq", NA) = FloatV(100000)
    /\ Get(nota, "valor_total", NA) = FloatV(100000)
    /\ \A r \in Retornos : r = Retorno(NAO, NA, NA, Suspeito)

\* C4: a record that carries 'erro' gets three 'N/A' and 'Nao foi possivel
\* analisar', also when it carries a recognized type, a ledger number and
\* amounts that would give three 'SIM'.
C4_ErroPrimeiro ==
    pc = "retornou" /\ "erro" \in DOMAIN nota =>
        \A r \in Retornos : r = Retorno(NA, NA, NA, NaoFoiPossivelAnalisar)

\* an error record that without 'erro' is discarded with three 'SIM'
C4_Witness ==
    /\ pc = "retornou"
    /\ "erro" \in DOMAIN nota
    /\ TipoReconhecido(nota)
    /\ TodasSim(validar_nota_fiscal_app(ComCampo(nota, "erro", Missing)))
    /\ TodasSim(validar_nota_fiscal_batch(ComCampo(nota, "erro", Missing)))
    /\ \A r \in Retornos : r = Retorno(NA, NA, NA, NaoFoiPossivelAnalisar)

\* The number an amount stands for, as written: the sign, digits and power
\* of ten of its text (of its repr, for a float), and not the binary number
\* float() rounds them to.  ok is FALSE for an amount that is no number.
NumeroExato(v) ==
    CASE v.t \in {"str", "float"} -> ParseNumber(v.s)
      [] v.t = "int" -> [ok |-> TRUE, k |-> "fin", neg |-> v.n < 0,
                         digits |-> NatDigits(IF v.n < 0 THEN -v.n ELSE v.n), x |-> 0]
      [] OTHER -> [ok |-> FALSE, k |-> "nan", neg |-> FALSE, digits |-> <<>>, x |-> 0]

\* the least power of ten two numbers and the tolerance are multiples of
ExpoenteComum(a, b) ==
    IF a.x < b.x THEN (IF a.x < -3 THEN a.x ELSE -3)
    ELSE (IF b.x < -3 THEN b.x ELSE -3)

\* the digits of a finite number, counted in units of 10^x0
Escalado[a \in Numbers, x0 \in Int] == BigMulPow10[BigFromDigits[a.digits], a.x - x0]

\* a < b on whole numbers sa, sb with the signs nega, negb
InteiroMenor[sa \in Bigs, nega \in BOOLEAN, sb \in Bigs, negb \in BOOLEAN] ==
    IF nega /\ sa # <<>>
    THEN (IF negb /\ sb # <<>> THEN BigLess[sb, sa] ELSE TRUE)
    ELSE (IF negb /\ sb # <<>> THEN FALSE ELSE BigLess[sa, sb])

\* |a - b| on whole numbers sa, sb with the signs nega, negb
InteiroDistancia[sa \in Bigs, nega \in BOOLEAN, sb \in Bigs, negb \in BOOLEAN] ==
    IF sa # <<>> /\ sb # <<>> /\ nega # negb THEN BigAdd[sa, sb]
    ELSE IF BigLess[sa, sb] THEN BigSub[sb, sa]
    ELSE BigSub[sa, sb]

\* a < b on exact numbers: infinities lie beyond every number, and nothing
\* is less or more than nan
ExatoMenor[a \in Numbers, b \in Numbers] ==
    IF ~a.ok \/ ~b.ok \/ a.k = "nan" \/ b.k = "nan" THEN FALSE
    ELSE IF a.k = "inf" THEN a.neg /\ ~(b.k = "inf" /\ b.neg)
    ELSE IF b.k = "inf" THEN ~b.neg
    ELSE InteiroMenor[Escalado[a, ExpoenteComum(a, b)], a.neg,
                      Escalado[b, ExpoenteComum(a, b)], b.neg]

\* the two are numbers that can be ordered
Ordenaveis(a, b) == a.ok /\ b.ok /\ a.k # "nan" /\ b.k # "nan"

\* the two amounts are numbers and the first is at most the second
MenorOuIgual(a, b) ==
    Ordenaveis(NumeroExato(a), NumeroExato(b)) /\ ~ExatoMenor[NumeroExato(b), NumeroExato(a)]

\* the two amounts are numbers and the first is greater than the second
Maior(a, b) == ExatoMenor[NumeroExato(b), NumeroExato(a)]

\* C5: for a recognized-type record without 'erro' and with verdict 1 'SIM',
\* verdict 2 is 'N/A' if the paid total or the declared amount is 'N/A';
\* otherwise it is 'SIM' exactly when paid <= declared (equal amounts give
\* 'SIM') and 'NAO' when paid > declared.  Verdict 2 is the same whatever the
\* invoice's own total is.
C5_ValorPagoMenorIgual ==
    pc = "retornou" /\ Analisavel(nota) =>
        LET pago      == Get(nota, "valor_pago_total_bq", NA)
            declarado == Get(nota, "valor_documento_bq", NA)
        IN  /\ \A r \in Retornos :
                  r.pdf_possui_nf_em_despesas = SIM =>
                      LET v2 == r.valor_pago_menor_igual_declarado
                      IN  IF pago = NA \/ declarado = NA
                          THEN v2 = NA
                          ELSE /\ v2 = SIM <=> MenorOuIgual(pago, declarado)
                               /\ Maior(pago, declarado) => v2 = NAO
            /\ \A x \in ValoresTotais :
                  LET outra == Validar(ComCampo(nota, "valor_total", x))
                  IN  /\ outra.app.valor_pago_menor_igual_declarado
                            = validacoes.app.valor_pago_menor_igual_declarado
                      /\ outra.batch.valor_pago_menor_igual_declarado
                            = validacoes.batch.valor_pago_menor_igual_declarado

\* paid total equal to the declared amount, under an invoice total that
\* differs from both: verdict 2 is 'SIM'
C5_Witness ==
    /\ pc = "retornou"
    /\ Analisavel(nota)
    /\ Get(nota, "valor_pago_total_bq", NA) = FloatV(100010)
    /\ Get(nota, "valor_documento_bq", NA) = FloatV(100010)
    /\ Get(nota, "valor_total", NA) = FloatV(1500010)
    /\ \A r \in Retornos :
          r.pdf_possui_nf_em_despesas = SIM /\ r.valor_pago_menor_igual_declarado = SIM

\* the tolerance, counted in units of 10^x0
ToleranciaEscalada[x0 \in Int] ==
    BigMulPow10[BigFromDigits[NatDigits(TOLERANCIA_COMPARACAO_VALORES)], -3 - x0]

\* |a - b| of two finite numbers, counted in units of 10^x0
Distancia[a \in Numbers, b \in Numbers, x0 \in Int] ==
    InteiroDistancia[Escalado[a, x0], a.neg, Escalado[b, x0], b.neg]

\* |a - b| < tolerance on exact numbers
ExatoDentro[a \in Numbers, b \in Numbers] ==
    /\ a.ok /\ b.ok /\ a.k = "fin" /\ b.k = "fin"
    /\ BigLess[Distancia[a, b, ExpoenteComum(a, b)], ToleranciaEscalada[ExpoenteComum(a, b)]]

\* |a - b| > tolerance on exact numbers; an infinity is that far from every
\* number but itself
ExatoAlem[a \in Numbers, b \in Numbers] ==
    /\ Ordenaveis(a, b)
    /\ IF a.k = "inf" \/ b.k = "inf" THEN ~(a.k = b.k /\ a.neg = b.neg)
       ELSE BigLess[ToleranciaEscalada[ExpoenteComum(a, b)],
                    Distancia[a, b, ExpoenteComum(a, b)]]

\* |a - b| = tolerance on exact numbers
ExatoNoLimite[a \in Numbers, b \in Numbers] ==
    /\ a.ok /\ b.ok /\ a.k = "fin" /\ b.k = "fin"
    /\ Distancia[a, b, ExpoenteComum(a, b)] = ToleranciaEscalada[ExpoenteComum(a, b)]

\* the two amounts are numbers less than the tolerance apart
DentroDaTolerancia(a, b) == ExatoDentro[NumeroExato(a), NumeroExato(b)]

\* the two amounts are numbers at least the tolerance apart
ForaDaTolerancia(a, b) ==
    \/ ExatoAlem[NumeroExato(a), NumeroExato(b)]
    \/ ExatoNoLimite[NumeroExato(a), NumeroExato(b)]

\* C6: for a recognized-type record without 'erro' and with verdict 1 'SIM',
\* verdict 3 is 'N/A' if the invoice total or the declared amount is 'N/A';
\* otherwise it is 'SIM' exactly when |total - declared| < 0.01, and 'NAO'
\* when the difference is 0.01 or more.  Verdict 3 is the same whatever the
\* paid total is.
C6_ValorNfIgualDeclarado ==
    pc = "retornou" /\ Analisavel(nota) =>
        LET total     == Get(nota, "valor_total", NA)
            declarado == Get(nota, "valor_documento_bq", NA)
        IN  /\ \A r \in Retornos :
                  r.pdf_possui_nf_em_despesas = SIM =>
                      LET v3 == r.valor_nf_igual_declarado
                      IN  IF total = NA \/ declarado = NA
                          THEN v3 = NA
                          ELSE /\ v3 = SIM <=> DentroDaTolerancia(total, declarado)
                               /\ ForaDaTolerancia(total, declarado) => v3 = NAO
            /\ \A x \in ValoresPagos :
                  LET outra == Validar(ComCampo(nota, "valor_pago_total_bq", x))
                  IN  /\ outra.app.valor_nf_igual_declarado
                            = validacoes.app.valor_nf_igual_declarado
                      /\ outra.batch.valor_nf_igual_declarado
                            = validacoes.batch.valor_nf_igual_declarado

\* the two amounts are numbers more than the tolerance apart
AlemDaTolerancia(a, b) == ExatoAlem[NumeroExato(a), NumeroExato(b)]

\* What holds of verdict 3 away from the boundary: amounts less than 0.01
\* apart give 'SIM', amounts more than 0.01 apart give 'NAO', amounts that
\* are no numbers give 'N/A'; at exactly 0.01 the rounding of the binary
\* subtraction decides.
ValorNfIgualDeclaradoForaDoLimite ==
    pc = "retornou" /\ Analisavel(nota) =>
        LET total     == Get(nota, "valor_total", NA)
            declarado == Get(nota, "valor_documento_bq", NA)
        IN  \A r \in Retornos :
                r.pdf_possui_nf_em_despesas = SIM =>
                    LET v3 == r.valor_nf_igual_declarado
                    IN  /\ DentroDaTolerancia(total, declarado) => v3 = SIM
                        /\ AlemDaTolerancia(total, declarado) => v3 = NAO
                        /\ ~ToFloat(total).ok \/ ~ToFloat(declarado).ok => v3 = NA

\* C7: for a recognized-type record without 'erro' and with verdict 1 'SIM',
\* when no verdict is 'NAO' and verdict 2 or verdict 3 is 'N/A', the
\* classification is 'Suspeito'.
C7_IncertezaSuspeito ==
    pc = "retornou" /\ Analisavel(nota) =>
        \A r \in Retornos :
            /\ r.pdf_possui_nf_em_despesas = SIM
            /\ r.valor_pago_menor_igual_declarado # NAO
            /\ r.valor_nf_igual_declarado # NAO
            /\ \/ r.valor_pago_menor_igual_declarado = NA
               \/ r.valor_nf_igual_declarado = NA
            => r.classificacao_final = Suspeito

\* verdicts 'SIM', 'SIM', 'N/A': nothing says 'NAO', the invoice total is missing
C7_Witness ==
    /\ pc = "retornou"
    /\ Analisavel(nota)
    /\ \A r \in Retornos : r = Retorno(SIM, SIM, NA, Suspeito)

-----------------------------------------------------------------------------
(* Property of pairs of records, checked under SpecPares.                  *)

Respostas(r) ==
    <<r.pdf_possui_nf_em_despesas, r.valor_pago_menor_igual_declarado,
      r.valor_nf_igual_declarado>>

\* C9: in each variant, two records that get the same three verdicts and
\* agree on whether their document type is recognized get the same
\* classification, whatever their amounts are.
C9_ClassificacaoFuncaoDasRespostas ==
    pc = "retornou" =>
        /\ TipoReconhecido(nota) = TipoReconhecido(nota2)
              /\ Respostas(validacoes.app) = Respostas(validacoes2.app)
           => validacoes.app.classificacao_final = validacoes2.app.classificacao_final
        /\ TipoReconhecido(nota) = TipoReconhecido(nota2)
              /\ Respostas(validacoes.batch) = Respostas(validacoes2.batch)
           => validacoes.batch.classificacao_final = validacoes2.batch.classificacao_final

\* two recognized records with different totals and paid totals, the same
\* verdicts 'SIM', 'N/A', 'N/A' and the same classification
C9_Witness ==
    /\ pc = "retornou"
    /\ Analisavel(nota) /\ Analisavel(nota2)
    /\ Get(nota, "valor_total", NA) = FloatV(100000)
    /\ Get(nota2, "valor_total", NA) = FloatV(100020)
    /\ Get(nota, "valor_pago_total_bq", NA) = FloatV(100000)
    /\ Get(nota2, "valor_pago_total_bq", NA) = FloatV(100010)
    /\ validacoes.app = Retorno(SIM, NA, NA, Suspeito)
    /\ validacoes2.app = Retorno(SIM, NA, NA, Suspeito)
    /\ validacoes.batch = validacoes.app
    /\ validacoes2.batch = validacoes2.app

-----------------------------------------------------------------------------
(* Properties of the pipeline, checked under Spec.                         *)

Classificacoes == {Descartado, Suspeito, NaoFoiPossivelAnalisar}

RespostasPossiveis == {SIM, NAO, NA}

CamposDaValidacao ==
    {"pdf_possui_nf_em_despesas", "valor_pago_menor_igual_declarado",
     "valor_nf_igual_declarado", "classificacao_final"}

\* the rows the session of the interactive variant holds
LinhasDaSessao ==
    IF modo = "app" /\ sessao["resultados"] # NoneV THEN sessao["resultados"].s ELSE <<>>

\* the four fields of the validation, each with one of its values
LinhaClassificada(r) ==
    /\ CamposDaValidacao \subseteq DOMAIN r
    /\ r["classificacao_final"] \in Classificacoes
    /\ r["pdf_possui_nf_em_despesas"] \in RespostasPossiveis
    /\ r["valor_pago_menor_igual_declarado"] \in RespostasPossiveis
    /\ r["valor_nf_igual_declarado"] \in RespostasPossiveis

\* C8: every row of resultados (an invoice's row, an error row, an extra
\* row of the batch variant) carries a classification that is one of
\* 'Descartado', 'Suspeito', 'Nao foi possivel analisar' and three verdicts
\* that are each 'SIM', 'NAO' or 'N/A'; in the interactive variant this
\* holds of the rows of every analysis of a session, as they are built and
\* as the session holds them.
C8_LinhasClassificadas ==
    /\ \A i \in 1..Len(resultados) : LinhaClassificada(resultados[i])
    /\ \A i \in 1..Len(LinhasDaSessao) : LinhaClassificada(LinhasDaSessao[i])

\* the page of results of the second analysis of a session of the
\* interactive variant: the session holds the rows of two invoices, one
\* 'Descartado' and one 'Nao foi possivel analisar'
C8_Witness ==
    /\ modo = "app"
    /\ pc = "fim"
    /\ Len(analises) = 2
    /\ Len(LinhasDaSessao) = 2
    /\ \E i, j \in 1..Len(LinhasDaSessao) :
          /\ LinhasDaSessao[i]["classificacao_final"] = Descartado
          /\ LinhasDaSessao[j]["classificacao_final"] = NaoFoiPossivelAnalisar

\* the normalized document number of section 4.1 of the specification:
\* trimmed, leading zeros stripped, "0" when nothing is left
NumeroNormalizado(v) ==
    LET s == LStripZeros(Strip(PyStr(v)))
    IN  IF s = <<>> THEN <<"0">> ELSE s

\* C10: an invoice of the document being processed whose number, normalized,
\* equals the normalized number of one of the document's ledger rows is
\* matched: its row carries a ledger number equal to its own after
\* normalization.
C10_ZerosAEsquerdaCasam ==
    \A i \in 1..Len(resultados) :
        /\ origem[i].pdf = idx
        /\ ~origem[i].extra
        /\ "erro" \notin DOMAIN resultados[i]
        /\ \E j \in 1..Len(registros_bigquery) :
              /\ registros_bigquery[j].num_documento_bq # NA
              /\ NumeroNormalizado(registros_bigquery[j].num_documento_bq)
                    = NumeroNormalizado(resultados[i]["numero_nf"])
        => /\ Get(resultados[i], "num_documento_bq", NA) # NA
           /\ NumeroNormalizado(Get(resultados[i], "num_documento_bq", NA))
                 = NumeroNormalizado(resultados[i]["numero_nf"])

\* the rows of resultados appended for an invoice of the document being
\* processed that carries no 'erro'
LinhasDeNotas ==
    { i \in 1..Len(resultados) :
        origem[i].pdf = idx /\ ~origem[i].extra /\ "erro" \notin DOMAIN resultados[i] }

\* the three ledger fields of a row ('N/A' for a field the row lacks)
CamposBQ(r) ==
    [num_documento_bq    |-> Get(r, "num_documento_bq", NA),
     valor_documento_bq  |-> Get(r, "valor_documento_bq", NA),
     valor_pago_total_bq |-> Get(r, "valor_pago_total_bq", NA)]

\* the ledger rows of the document whose trimmed number is the trimmed number
\* the row of an invoice carries
RegistrosIguais(r) ==
    { j \in 1..Len(registros_bigquery) :
        Strip(PyStr(registros_bigquery[j].num_documento_bq))
            = Strip(PyStr(Get(r, "numero_nf", StrV(<<>>)))) }

Minimo(S) == CHOOSE x \in S : \A y \in S : x <= y

\* C11: when ledger rows of the document have the same number as an invoice,
\* the invoice's row carries the fields of the first of them in the order the
\* lookup returned (in both variants).
C11_PrimeiroRegistroIgual ==
    \A i \in LinhasDeNotas :
        RegistrosIguais(resultados[i]) # {} =>
            CamposBQ(resultados[i])
                = registros_bigquery[Minimo(RegistrosIguais(resultados[i]))]

\* the same, of the interactive variant alone
PrimeiroRegistroIgualApp == modo = "app" => C11_PrimeiroRegistroIgual

\* the ledger rows of the document whose normalized number is the normalized
\* number of the invoice of a row
RegistrosMesmoNumero(r) ==
    { j \in 1..Len(registros_bigquery) :
        NumeroNormalizado(registros_bigquery[j].num_documento_bq)
            = NumeroNormalizado(Get(r, "numero_nf", StrV(<<>>))) }

\* the row carries the three ledger fields, with the values of reg
TemCamposBQ(r, reg) ==
    /\ {"num_documento_bq", "valor_documento_bq", "valor_pago_total_bq"} \subseteq DOMAIN r
    /\ CamposBQ(r) = reg

\* C12 as stated: the row of an invoice without 'erro' whose number no
\* ledger row of the document has carries 'N/A' in the three ledger fields.
C12_SemRegistroIgualNA ==
    \A i \in LinhasDeNotas :
        RegistrosMesmoNumero(resultados[i]) = {} => TemCamposBQ(resultados[i], SemRegistro)

\* the results the session holds are the rows of the analysis last started,
\* and the ledger rows it holds next to them are those of that analysis
SessaoDaUltimaAnalise ==
    modo = "app" /\ sessao["resultados"] # NoneV =>
        /\ sessao["analise_concluida"]
        /\ sessao["resultados"] = ListV(resultados)
        /\ sessao["registros_bigquery"] = ListV(registros_bigquery)

\* C12, amended: such a row carries 'N/A' in the three ledger fields in the
\* interactive variant (in every analysis of a session, the rows the session
\* holds being those of the analysis last started), and in the batch variant
\* when the lookup returned no row; in the batch variant when the lookup
\* returned rows it carries the three fields of the first row returned.
C12_SemRegistroIgual ==
    /\ SessaoDaUltimaAnalise
    /\ \A i \in LinhasDeNotas :
          RegistrosMesmoNumero(resultados[i]) = {} =>
              IF modo = "app" \/ registros_bigquery = <<>>
              THEN TemCamposBQ(resultados[i], SemRegistro)
              ELSE TemCamposBQ(resultados[i], registros_bigquery[1])

\* a batch row of an invoice whose number no ledger row has, next to a
\* ledger that returned rows with numbers
C12_Witness ==
    /\ modo = "batch"
    /\ \E i \in LinhasDeNotas :
          /\ RegistrosMesmoNumero(resultados[i]) = {}
          /\ registros_bigquery # <<>>
          /\ registros_bigquery[1].num_documento_bq # NA
          /\ TemCamposBQ(resultados[i], registros_bigquery[1])

\* C13: the row of an invoice of recognized type whose number no ledger row
\* of the document has gets verdict 1 'NAO' and the classification
\* 'Suspeito', also when the document has other ledger rows.
C13_SemRegistroIgualSuspeito ==
    \A i \in LinhasDeNotas :
        TipoReconhecido(resultados[i]) /\ RegistrosMesmoNumero(resultados[i]) = {} =>
            /\ Get(resultados[i], "pdf_possui_nf_em_despesas", Missing) = NAO
            /\ Get(resultados[i], "classificacao_final", Missing) = Suspeito

\* the same, of the interactive variant alone
SemRegistroIgualSuspeitoApp == modo = "app" => C13_SemRegistroIgualSuspeito

\* the fields of the row of an invoice matched by number, in the batch variant
CamposDeUmaLinha ==
    {"numero_pagina", "cnpj_prestador", "tipo_documento", "numero_nf", "valor_total",
     "nome_arquivo", "total_paginas_pdf",
     "num_documento_bq", "valor_documento_bq", "valor_pago_total_bq"}
    \cup CamposDaValidacao

\* batch rows of invoices that took a ledger row with their own number
LinhasExatas ==
    { i \in LinhasDeNotas : modo = "batch" /\ RegistrosIguais(resultados[i]) # {} }

\* batch rows of invoices that took a ledger row with another number
LinhasFallback ==
    { i \in LinhasDeNotas :
        /\ modo = "batch"
        /\ registros_bigquery # <<>>
        /\ RegistrosIguais(resultados[i]) = {} }

\* every row of an exact match has exactly the fields of CamposDeUmaLinha
LinhasExatasSemMarca ==
    \A i \in LinhasExatas : DOMAIN resultados[i] = CamposDeUmaLinha

\* C14: a batch row whose ledger fields come from a row with another number
\* carries a marker, a field that the row of an exact match does not have.
C14_FallbackMarcado ==
    \A i \in LinhasFallback : (DOMAIN resultados[i]) \ CamposDeUmaLinha # {}

\* every invoice of the document being processed has been handled
FimDoDocumento ==
    \/ modo = "app" /\ pc = "fim"
    \/ modo = "batch" /\ pc \in {"notas", "exibir", "fim"} /\ nota_idx > Len(notas_fiscais)

\* the ledger rows of the document that the row of some invoice carries
Selecionados ==
    { k \in 1..Len(registros_bigquery) :
        \E i \in 1..Len(resultados) :
            /\ origem[i].pdf = idx
            /\ ~origem[i].extra
            /\ TemCamposBQ(resultados[i], registros_bigquery[k]) }

\* the invoice fields of a row are blank
CamposDaNotaVazios(r) ==
    \A c \in {"numero_pagina", "cnpj_prestador", "tipo_documento", "numero_nf",
              "valor_total"} :
        Get(r, c, StrV(<<>>)) = StrV(<<>>)

\* ledger row k is emitted as an orphan: in the batch variant an extra row
\* of the document with blank invoice fields and the row's ledger fields, in
\* the interactive variant an entry of the table of other expenses
Orfao(k) ==
    IF modo = "batch"
    THEN \E i \in 1..Len(resultados) :
            /\ origem[i].pdf = idx
            /\ origem[i].extra
            /\ CamposDaNotaVazios(resultados[i])
            /\ TemCamposBQ(resultados[i], registros_bigquery[k])
    ELSE \E j \in 1..Len(outras_despesas) :
            /\ outras_despesas[j]["Numero Documento"] =
                  (IF Truthy(registros_bigquery[k].num_documento_bq)
                   THEN registros_bigquery[k].num_documento_bq ELSE NA)
            /\ outras_despesas[j]["Valor Documento"] =
                  formatar_valor_monetario(registros_bigquery[k].valor_documento_bq)
            /\ outras_despesas[j]["Valor Pago Total"] =
                  formatar_valor_monetario(registros_bigquery[k].valor_pago_total_bq)

\* C15: once the invoices of a document are handled, every ledger row of the
\* document that the row of no invoice carries is emitted as an orphan.
C15_NaoSelecionadosOrfaos ==
    FimDoDocumento =>
        \A k \in 1..Len(registros_bigquery) : k \notin Selecionados => Orfao(k)

\* the rows of resultados of the document being processed: those of its
\* invoices and the extra ones
LinhasDoPdf == { i \in 1..Len(resultados) : origem[i].pdf = idx /\ ~origem[i].extra }

LinhasExtras == { i \in 1..Len(resultados) : origem[i].pdf = idx /\ origem[i].extra }

\* C16: in the batch variant, once the invoices of a document are handled,
\* the result list has one row per extracted invoice and one extra row per
\* ledger row that no invoice's row carries; no extra row carries a ledger
\* row that an invoice's row carries, and (the ledger rows being distinct) no
\* two extra rows carry the same ledger row.
C16_UmaLinhaPorNotaEPorOrfao ==
    modo = "batch" /\ FimDoDocumento =>
        /\ Cardinality(LinhasDoPdf) = Len(notas_fiscais)
        /\ Cardinality(LinhasExtras)
              = Len(registros_bigquery) - Cardinality(Selecionados)
        /\ \A i \in LinhasExtras : \A k \in Selecionados :
              ~TemCamposBQ(resultados[i], registros_bigquery[k])
        /\ (\A k, l \in 1..Len(registros_bigquery) :
                k # l => registros_bigquery[k] # registros_bigquery[l])
           => \A i, j \in LinhasExtras :
                i # j => CamposBQ(resultados[i]) # CamposBQ(resultados[j])

\* C17: every row of the result list has the three ledger fields, none of
\* them null.
C17_CamposBQPresentes ==
    \A i \in 1..Len(resultados) :
        \A c \in {"num_documento_bq", "valor_documento_bq", "valor_pago_total_bq"} :
            c \in DOMAIN resultados[i] /\ resultados[i][c] # NoneV

\* the same, of the interactive variant alone
CamposBQPresentesApp == modo = "app" => C17_CamposBQPresentes

\* the extraction of the document being processed returned an error record
ErroDeExtracao ==
    /\ Len(arquivos_pdf[idx].gemini) = 1
    /\ "erro" \in DOMAIN arquivos_pdf[idx].gemini[1]

\* the document being processed has been handled, whatever came of it
PdfTratado == FimDoDocumento \/ (modo = "app" /\ pc = "erro")

\* C18: a document whose extraction returned an error record gets exactly
\* one row, with the three verdicts 'N/A' and the classification
\* 'Nao foi possivel analisar', that carries no ledger row (in both
\* variants).
C18_ErroDeExtracaoUmaLinha ==
    ErroDeExtracao /\ PdfTratado =>
        /\ Cardinality(LinhasDoPdf \cup LinhasExtras) = 1
        /\ \A i \in LinhasDoPdf \cup LinhasExtras :
              /\ resultados[i]["pdf_possui_nf_em_despesas"] = NA
              /\ resultados[i]["valor_pago_menor_igual_declarado"] = NA
              /\ resultados[i]["valor_nf_igual_declarado"] = NA
              /\ resultados[i]["classificacao_final"] = NaoFoiPossivelAnalisar
              /\ \A k \in 1..Len(registros_bigquery) :
                    ~TemCamposBQ(resultados[i], registros_bigquery[k])

\* the same, of the batch variant alone
ErroDeExtracaoUmaLinhaBatch == modo = "batch" => C18_ErroDeExtracaoUmaLinha

\* the ledger lookup of the document being processed ran and the query raised
ConsultaFalhou ==
    /\ bigquery_enabled
    /\ arquivos_pdf[idx].consulta.falha
    /\ pc \in {"notas", "exibir", "fim"}

\* the extraction of the document being processed returned no error record
ExtracaoSemErro ==
    \A j \in 1..Len(arquivos_pdf[idx].gemini) :
        "erro" \notin DOMAIN arquivos_pdf[idx].gemini[j]

\* C19: once a document whose ledger lookup raised is handled, its rows hold
\* a row with the error field populated (the extraction having returned no
\* error record, that row can only stand for the failed lookup).
C19_FalhaDaConsultaNaSaida ==
    ConsultaFalhou /\ ExtracaoSemErro /\ FimDoDocumento =>
        \E i \in LinhasDoPdf \cup LinhasExtras :
            "erro" \in DOMAIN resultados[i] /\ Truthy(resultados[i]["erro"])

\* an amount that is null, empty or a string that is no number (and not the
\* sentinel 'N/A')
SemNumero(v) ==
    \/ v = NoneV
    \/ v.t = "str" /\ v # NA /\ ~ToFloat(v).ok

\* an amount that is a number
Numero(v) == v # Missing /\ ToFloat(v).ok

\* C20: for a recognized-type record without 'erro' and with verdict 1 'SIM',
\* both variants return when the invoice total, the declared amount or the
\* paid total is null, empty or a string that is no number: each verdict
\* that depends on such an amount is 'N/A', a verdict that does not is the
\* one returned with a number in that amount's place ('SIM' or 'NAO' when its
\* own amounts are numbers), and the classification is one of the
\* classifications.
C20_ValorSemNumero ==
    pc = "retornou" /\ Analisavel(nota) =>
        LET total     == Get(nota, "valor_total", NA)
            declarado == Get(nota, "valor_documento_bq", NA)
            pago      == Get(nota, "valor_pago_total_bq", NA)
            comTotal  == Validar(ComCampo(nota, "valor_total", FloatV(100000)))
            comPago   == Validar(ComCampo(nota, "valor_pago_total_bq", FloatV(100000)))
        IN  \A var \in {"app", "batch"} :
               LET r == validacoes[var]
               IN  r.pdf_possui_nf_em_despesas = SIM
                   /\ (SemNumero(total) \/ SemNumero(declarado) \/ SemNumero(pago)) =>
                      /\ r.classificacao_final \in Classificacoes
                      /\ SemNumero(pago) \/ SemNumero(declarado) =>
                            r.valor_pago_menor_igual_declarado = NA
                      /\ SemNumero(total) \/ SemNumero(declarado) =>
                            r.valor_nf_igual_declarado = NA
                      /\ SemNumero(total) =>
                            r.valor_pago_menor_igual_declarado
                               = comTotal[var].valor_pago_menor_igual_declarado
                      /\ SemNumero(total) /\ Numero(pago) /\ Numero(declarado) =>
                            r.valor_pago_menor_igual_declarado \in {SIM, NAO}
                      /\ SemNumero(pago) =>
                            r.valor_nf_igual_declarado
                               = comPago[var].valor_nf_igual_declarado
                      /\ SemNumero(pago) /\ Numero(total) /\ Numero(declarado) =>
                            r.valor_nf_igual_declarado \in {SIM, NAO}

\* an invoice total written with a decimal comma, next to a paid total equal
\* to the declared amount: verdict 2 is 'SIM', verdict 3 'N/A', and the
\* record is classified 'Suspeito'
C20_Witness ==
    /\ pc = "retornou"
    /\ Analisavel(nota)
    /\ Get(nota, "valor_total", NA) = StrV(<<"1", "0", "0", ",", "0", "0">>)
    /\ Get(nota, "valor_documento_bq", NA) = FloatV(100000)
    /\ Get(nota, "valor_pago_total_bq", NA) = FloatV(100000)
    /\ \A r \in Retornos :
          r = Retorno(SIM, SIM, NA, Suspeito)

\* C21: normalizing the invoice number of a record already normalized gives
\* the same record.
C21_NormalizacaoIdempotente ==
    modo = "normalizar" /\ pc = "renormalizou" => nota2 = nota

\* the normalization of section 4.1 of the specification for the number of a
\* record: "0" for an empty or absent number
NumeroEsperado(n) ==
    IF "numero_nf" \notin DOMAIN n \/ n["numero_nf"] = NoneV
    THEN <<"0">>
    ELSE NumeroNormalizado(n["numero_nf"])

\* C22: the normalized invoice number of a record is its number trimmed,
\* without its leading zeros, and "0" when that leaves nothing, also for
\* an empty or absent number.
C22_NumeroNormalizado ==
    modo = "normalizar" /\ pc = "normalizou" =>
        /\ "numero_nf" \in DOMAIN nota2
        /\ nota2["numero_nf"] = StrV(NumeroEsperado(nota))

\* the same, of the records that carry a number that is true in Python (a
\* non-empty string, a nonzero integer)
NumeroNormalizadoSeVerdadeiro ==
    modo = "normalizar" /\ pc = "normalizou"
    /\ "numero_nf" \in DOMAIN nota /\ Truthy(nota["numero_nf"]) =>
        nota2["numero_nf"] = StrV(NumeroEsperado(nota))

\* the ledger lookup of the document being processed ran and the query
\* returned its rows
ConsultaRespondeu ==
    /\ bigquery_enabled
    /\ ~arquivos_pdf[idx].consulta.falha
    /\ pc \in {"notas", "exibir", "fim"}

\* the amount of a ledger row as it is to be carried: 'N/A' for a null, the
\* number otherwise
ValorCarregado(v) == IF v = NoneV THEN NA ELSE PyFloat(v)

\* C23: the rows the lookup hands to matching carry each amount the query
\* returned as that number, an amount of zero included, and 'N/A' only for
\* a null.
C23_ZeroNaoViraNA ==
    ConsultaRespondeu =>
        /\ Len(registros_bigquery) = Len(arquivos_pdf[idx].consulta.linhas)
        /\ \A k \in 1..Len(registros_bigquery) :
              LET row == arquivos_pdf[idx].consulta.linhas[k]
              IN  /\ registros_bigquery[k].valor_documento_bq
                        = ValorCarregado(row.valor_documento)
                  /\ registros_bigquery[k].valor_pago_total_bq
                        = ValorCarregado(row.valor_pago_total)

\* the first ledger row with the number of the invoice of row r agrees with
\* the invoice: paid total at most the declared amount, invoice total within
\* the tolerance of the declared amount
PrimeiroRegistroConfere(r) ==
    /\ RegistrosIguais(r) # {}
    /\ LET reg == registros_bigquery[Minimo(RegistrosIguais(r))]
       IN  /\ MenorOuIgual(reg.valor_pago_total_bq, reg.valor_documento_bq)
           /\ DentroDaTolerancia(Get(r, "valor_total", NA), reg.valor_documento_bq)

\* C24: the row of an invoice of recognized type whose number is that of a
\* ledger row of the document, with paid <= declared and the invoice total
\* within the tolerance of the declared amount, carries the fields of that
\* ledger row, three 'SIM' and 'Descartado', whatever other invoices and
\* ledger rows the document has.  (Of the ledger rows with the invoice's
\* number, the first is taken as the row of the claim.)
C24_NotaConferidaDescartada ==
    \A i \in LinhasDeNotas :
        TipoReconhecido(resultados[i]) /\ PrimeiroRegistroConfere(resultados[i]) =>
            /\ CamposBQ(resultados[i])
                  = registros_bigquery[Minimo(RegistrosIguais(resultados[i]))]
            /\ TodasSim(resultados[i])
            /\ resultados[i]["classificacao_final"] = Descartado

\* the same, of the interactive variant alone
NotaConferidaDescartadaApp == modo = "app" => C24_NotaConferidaDescartada

\* the rows of resultados appended for document d
LinhasDoDocumento(d) == { i \in 1..Len(resultados) : origem[i].pdf = d }

\* what the one lookup of the document being processed returns
RegistrosDaConsulta ==
    IF modo = "app"
    THEN consultar_bigquery_por_arquivo_app(arquivos_pdf[idx].consulta, bigquery_enabled)
    ELSE consultar_bigquery_por_arquivo_batch(arquivos_pdf[idx].consulta, bigquery_enabled)

\* the rows of the document being processed take their ledger fields from
\* the list the one lookup of the run returned
LinhasDaConsulta ==
    /\ pc \in {"notas", "exibir", "fim"} /\ bigquery_enabled =>
          registros_bigquery = RegistrosDaConsulta
    /\ pc \in {"notas", "exibir", "fim"} =>
          \A i \in LinhasDoDocumento(idx) :
              \/ CamposBQ(resultados[i]) = SemRegistro
              \/ \E k \in 1..Len(registros_bigquery) :
                    CamposBQ(resultados[i]) = registros_bigquery[k]

\* C25 as stated: the ledger is looked up at most once for each document,
\* whatever the number of its invoices; a document that has rows in the
\* result list was looked up before (the ledger being enabled); and the rows
\* of the document being processed take their ledger fields from the list
\* that lookup returned.
C25_UmaConsultaPorDocumento ==
    modo \in {"app", "batch"} =>
        /\ \A d \in 1..Len(arquivos_pdf) :
              /\ consultas[d] <= 1
              /\ bigquery_enabled /\ LinhasDoDocumento(d) # {} => consultas[d] = 1
        /\ LinhasDaConsulta

\* the analyses of document d started in the session
AnalisesDe(d) == { k \in 1..Len(analises) : analises[k].pdf = d }

\* C25, amended: the ledger is looked up at most once in each processing of
\* a document, whatever the number of its invoices: once for each document
\* of a batch and once in each analysis of a session of the interactive
\* variant, where a document analysed again is looked up again; rows are
\* built only after that lookup (the ledger being enabled), and the rows of
\* the document being processed take their ledger fields from the list it
\* returned.
C25_UmaConsultaPorAnalise ==
    /\ modo = "batch" =>
          \A d \in 1..Len(arquivos_pdf) :
              /\ consultas[d] <= 1
              /\ bigquery_enabled /\ LinhasDoDocumento(d) # {} => consultas[d] = 1
    /\ modo = "app" =>
          /\ \A k \in 1..Len(analises) : analises[k].consultas <= 1
          /\ \A d \in 1..Len(arquivos_pdf) : consultas[d] <= Cardinality(AnalisesDe(d))
          /\ bigquery_enabled /\ resultados # <<>> =>
                analises[Len(analises)] = [pdf |-> idx, consultas |-> 1]
    /\ modo \in {"app", "batch"} => LinhasDaConsulta

\* the second analysis of a document in a session of the interactive
\* variant: two invoices, both handled after the one lookup of this
\* analysis, the second lookup of the document
C25_Witness ==
    /\ modo = "app"
    /\ bigquery_enabled
    /\ Len(analises) = 2
    /\ analises[1].pdf = analises[2].pdf
    /\ analises[2].consultas = 1
    /\ consultas[idx] = 2
    /\ Len(notas_fiscais) = 2
    /\ nota_idx = 3
    /\ registros_bigquery # <<>>
    /\ Cardinality(LinhasDoPdf) = 2

\* C26: among the rows of a document the rows of its invoices come first,
\* in extraction order, and the extra rows after the last of them: no extra
\* row precedes the row of an invoice.
C26_OrfaosDepoisDasNotas ==
    \A d \in 1..Len(arquivos_pdf) :
        \A i, j \in LinhasDoDocumento(d) :
            i < j =>
                /\ origem[i].extra => origem[j].extra
                /\ ~origem[i].extra /\ ~origem[j].extra => origem[i].nota < origem[j].nota

\* the rows of the invoices of a document are in extraction order
NotasEmOrdemDeExtracao ==
    \A d \in 1..Len(arquivos_pdf) :
        \A i, j \in LinhasDoDocumento(d) :
            i < j /\ ~origem[i].extra /\ ~origem[j].extra => origem[i].nota < origem[j].nota

\* the result lists of the first k documents, each processed alone, one
\* after the other
ResultadosSeparados(k) ==
    Concatenar([d \in 1..k |-> processar_pdf_batch(arquivos_pdf[d], bigquery_enabled)])

\* C27: in the batch variant the result list is, before each document, the
\* concatenation in document order of the lists that the documents before
\* it yield when processed alone, and at the end that of all the documents
\* of the batch; the rows appended for a document are never changed later.
C27_LoteConcatenacao ==
    modo = "batch" =>
        /\ pc = "extrair" => resultados = ResultadosSeparados(idx - 1)
        /\ pc = "fim" =>
              /\ idx = Len(arquivos_pdf)
              /\ resultados = ResultadosSeparados(Len(arquivos_pdf))

\* a finished batch of two documents: the first has its extraction in error
\* or its lookup failing, the second an invoice matched by a ledger row
C27_Witness ==
    /\ modo = "batch"
    /\ pc = "fim"
    /\ Len(arquivos_pdf) = 2
    /\ \/ arquivos_pdf[1].gemini = ExtracaoErro
       \/ arquivos_pdf[1].consulta.falha
    /\ LinhasDoDocumento(1) # {}
    /\ \E i \in LinhasDoDocumento(2) :
          /\ ~origem[i].extra
          /\ resultados[i]["classificacao_final"] = Descartado

\* both variants return for the record what they returned before
MesmoRetorno ==
    /\ pc = "retornou" => Validar(nota) = validacoes
    /\ pc = "revalidou" =>
          /\ validacoes2 = validacoes
          /\ Validar(nota2) = validacoes2

\* a call of validar_nota_fiscal leaves the record it is given as it was
ArgumentoIntacto ==
    (ValidarPrimeiraVez \/ ValidarDeNovo) => nota' = nota /\ nota2' = nota2

\* C28: validar_nota_fiscal leaves every field of the record it is given
\* unchanged, and returns the same three verdicts and the same classification
\* when called again on the record, also after the record has been enriched
\* with what a call returned (in both variants).
C28_ValidarSemEfeitoEIdempotente ==
    [](modo = "revalidar" => MesmoRetorno) /\ [][ArgumentoIntacto]_vars

\* an enriched record that both variants discard again with three 'SIM'
C28_Witness ==
    /\ modo = "revalidar"
    /\ pc = "revalidou"
    /\ "classificacao_final" \in DOMAIN nota2
    /\ nota2["classificacao_final"] = Descartado
    /\ validacoes2.app = Retorno(SIM, SIM, SIM, Descartado)
    /\ validacoes2.batch = Retorno(SIM, SIM, SIM, Descartado)

\* C29: for every record the validar_nota_fiscal of src/app.py and that of
\* src/extrair_notas_fiscais.py return the same three verdicts and the same
\* classification.
C29_VariantesEquivalentes ==
    modo = "validar" /\ pc = "retornou" => validacoes.app = validacoes.batch

\* a declared amount given as text, which both variants parse: paid 100.01
\* against "100.00" is 'NAO' and the invoice total 100.0 is 'SIM'
C29_Witness ==
    /\ modo = "validar"
    /\ pc = "retornou"
    /\ Analisavel(nota)
    /\ Get(nota, "valor_documento_bq", NA) = StrV(<<"1", "0", "0", ".", "0", "0">>)
    /\ Get(nota, "valor_pago_total_bq", NA) = FloatV(100010)
    /\ Get(nota, "valor_total", NA) = FloatV(100000)
    /\ validacoes.app = Retorno(SIM, NAO, SIM, Suspeito)
    /\ validacoes.batch = Retorno(SIM, NAO, SIM, Suspeito)

\* C30: in the interactive variant every row of the result list, in every
\* analysis of a session, carries in its three ledger fields either three
\* 'N/A' or the fields of one ledger row of the analysis whose trimmed number
\* is the row's normalized numero_nf, and a row with verdict 1 'SIM' has such
\* a ledger row; the rows and the ledger rows the session holds are those of
\* the analysis last started, not those an earlier analysis left.
C30_CamposDeUmRegistroIgual ==
    modo = "app" =>
        /\ \A i \in 1..Len(resultados) :
              /\ \/ TemCamposBQ(resultados[i], SemRegistro)
                 \/ \E k \in RegistrosIguais(resultados[i]) :
                       TemCamposBQ(resultados[i], registros_bigquery[k])
              /\ resultados[i]["pdf_possui_nf_em_despesas"] = SIM =>
                    RegistrosIguais(resultados[i]) # {}
        /\ SessaoDaUltimaAnalise

\* the second analysis of a session, started after "Nova Analise" with the
\* ledger rows of the first still in the session: an invoice extracted as
\* '00123', normalized to '123' and given the fields of the ledger row '123',
\* next to a second ledger row
C30_Witness ==
    /\ modo = "app"
    /\ Len(analises) = 2
    /\ ~sessao["analise_concluida"]
    /\ "registros_bigquery" \in DOMAIN sessao
    /\ Len(registros_bigquery) = 2
    /\ \E i \in 1..Len(resultados) :
          /\ arquivos_pdf[idx].gemini[origem[i].nota]["numero_nf"]
                = StrV(<<"0", "0", "1", "2", "3">>)
          /\ resultados[i]["numero_nf"] = StrV(<<"1", "2", "3">>)
          /\ resultados[i]["num_documento_bq"] = StrV(<<"1", "2", "3">>)
          /\ resultados[i]["pdf_possui_nf_em_despesas"] = SIM

=============================================================================
